---- MODULE Spec2Model ----
(***************************************************************************)
(* Verification model of the financial-data-ecosystem pipeline:            *)
(*   - the Gold cloud function (cloud_functions/gold/main.py), which       *)
(*     merges a cleaned snapshot into the rolling history state object,    *)
(*   - the Bronze cloud function (cloud_functions/bronze/main.py), which   *)
(*     fetches market data in batches with retry and backoff.              *)
(*   - the analytical query of the Gold layer (pipeline/gold/analyze.py    *)
(*     and cloud_functions/gold/main.py): SMA, RSI and signal.             *)
(***************************************************************************)
EXTENDS Integers, Sequences, FiniteSets, TLC

(***************************************************************************)
(* Bounds of the model.                                                    *)
(***************************************************************************)
\* main.py:195 keeps 500 rows per coin; the model keeps RETENTION rows.
RETENTION == 2
\* source_updated_at ranges over 1..MaxTime
MaxTime == 2
\* processed_at (one value per Silver run) ranges over 1..MaxProc
MaxProc == 2
\* a cleaned snapshot holds at most MaxSnapshotRows rows
MaxSnapshotRows == 2
CoinIds == {"bitcoin", "ethereum"}

\* Two invocations of process_analysis, each serving one event; they may run
\* one after the other or overlap.
Invocations == {1, 2}

\* the state object analyzed_market_summary.parquet does not exist
NoBlob == [exists |-> FALSE, rows |-> {}]

\* the state object holding the given rows
Blob(rows) == [exists |-> TRUE, rows |-> rows]

Max(a, b) == IF a >= b THEN a ELSE b
Min(a, b) == IF a <= b THEN a ELSE b

(***************************************************************************)
(* Rows.  common_columns (main.py:125-132) are modelled by the key columns *)
(* coin_id and source_updated_at, one business column (current_price,      *)
(* standing for every metric passed through unchanged) and one lineage     *)
(* column (processed_at, standing for ingested_file/processed_at).         *)
(***************************************************************************)
\* The provider's reading of a coin at a source time: the business columns
\* are a function of (coin_id, source_updated_at).
Quote(c, t) == IF c = "bitcoin" THEN 100 + 10 * t ELSE 50 - 5 * t

Row(c, t, p) ==
    [coin_id |-> c, source_updated_at |-> t, current_price |-> Quote(c, t),
     processed_at |-> p]

RowUniverse == {Row(c, t, p) : c \in CoinIds, t \in 1..MaxTime, p \in 1..MaxProc}

\* The cleaned files a Silver run can deliver: every row of one file carries
\* the processed_at of that run (pipeline/silver/clean.py:89).
CleanedSnapshots ==
    UNION {{S \in SUBSET {Row(c, t, p) : c \in CoinIds, t \in 1..MaxTime} :
               Cardinality(S) <= MaxSnapshotRows} : p \in 1..MaxProc}

RowsOfCoin(S, c) == {r \in S : r.coin_id = c}

(***************************************************************************)
(* State of the Gold cloud function and of the object it maintains.        *)
(***************************************************************************)
VARIABLES
    gold_blob,       \* the object analyzed_market_summary.parquet
    gold_gen,        \* number of uploads the state object has received
    blob_src,        \* the new data merged by the run that uploaded gold_blob
    pc,              \* position of each invocation of process_analysis
    local_new_data,  \* /tmp/<input_filename> of the invocation
    local_history,   \* /tmp/history.parquet of the invocation
    has_history,     \* the invocation's has_history flag
    local_output,    \* /tmp/output.parquet of the invocation
    loaded_gen,      \* gold_gen seen when the invocation read the history
    loaded_src,      \* blob_src seen when the invocation read the history
    saved_gen        \* gold_gen produced by the invocation's upload

gold_vars ==
    <<gold_blob, gold_gen, blob_src, pc, local_new_data, local_history,
      has_history, local_output, loaded_gen, loaded_src, saved_gen>>


VARIABLES
    m_pc,        \* "init", "merged" or "reapplied"
    m_existing,  \* the history object the first merge starts from
    m_incoming,  \* the cleaned snapshot of the first merge
    m_first,     \* rows written by the first merge
    m_again,     \* the cleaned snapshot of the second merge
    m_second     \* rows written by the second merge

merge_vars == <<m_pc, m_existing, m_incoming, m_first, m_again, m_second>>


(***************************************************************************)
(* State of one Bronze fetch cycle (process_ingestion).                    *)
(***************************************************************************)
VARIABLES
    b_pc,             \* "start", "fetching", "batch_returned", "store",
                      \* "done" or "raised"
    bucket_set,       \* BRONZE_BUCKET_NAME is configured
    coin_list,        \* the parsed list of coin ids
    loop_i,           \* i of the batch loop
    batch_num,        \* batch_num of the batch loop
    attempt,          \* attempt of fetch_market_data_batch
    batch_data,       \* what fetch_market_data_batch returned
    all_market_data,  \* the records collected so far
    clock,            \* wall clock, in seconds
    capture_time,     \* capture_time of the cycle
    log,              \* requests, responses and sleeps, in order
    stored_payload,   \* the payload written to storage, if any
    result,           \* HTTP status returned by process_ingestion, 0 if none
    error_message     \* message of the exception raised, "" if none

bronze_vars ==
    <<b_pc, bucket_set, coin_list, loop_i, batch_num, attempt, batch_data,
      all_market_data, clock, capture_time, log, stored_payload, result,
      error_message>>

(***************************************************************************)
(* State of one run of the analytical query on the rows of one coin.       *)
(***************************************************************************)
VARIABLES
    a_pc,           \* "start", "local_done", "cloud_done", "cloud_redone" or
                    \* "raised"
    source_exists,  \* the cleaned file is there
    a_prices,       \* current_price of the coin's rows, oldest first
    div_by_zero,    \* what the engine's x / 0 gives: "null" or "ieee"
    a_out,          \* the rows the query wrote, oldest first
    a_again,        \* the rows a second run wrote from the rows of the first
    a_error         \* the exception that reached the caller, "" if none

analysis_vars ==
    <<a_pc, source_exists, a_prices, div_by_zero, a_out, a_again, a_error>>

(***************************************************************************)
(* State of the Silver stage under its caller: process_cleaning under the  *)
(* local pipeline driver, or the cloud handler process_data_cleaning.      *)
(***************************************************************************)
VARIABLES
    sv_env,       \* "local" or "cloud"
    buckets_set,  \* BRONZE_BUCKET_NAME and SILVER_BUCKET_NAME are configured
    raw_files,    \* the raw_prices_*.json payloads, by file
    sv_run,       \* number of the current run over the same payloads
    sv_pc,        \* position of the current run
    cleaned,      \* the object cleaned_market_data.parquet
    sv_written,   \* the rows each run wrote
    sv_outcome,   \* "none", "ok" or "failed", for each run
    sv_result,    \* what the stage handed its caller in each run, "" before
    sv_exit,      \* exit code of the driver process in each run, "" before
    sv_printed    \* the error each run printed, "" if none

silver_vars ==
    <<sv_env, buckets_set, raw_files, sv_run, sv_pc, cleaned, sv_written,
      sv_outcome, sv_result, sv_exit, sv_printed>>

(***************************************************************************)
(* State of the end of a Gold cloud run: query, alert, upload, return.     *)
(***************************************************************************)
VARIABLES
    webhook_url,    \* DISCORD_WEBHOOK_URL, "" when it is not configured
    al_prices,      \* the price history of the coin btc
    al_other,       \* the price history of the coin eth, <<>> if there is none
    al_late,        \* by how much the last row of eth is later than that of btc
    al_pc,          \* position of the run
    al_output,      \* the table local_output
    latest_row,     \* the row fetched for the alert, <<>> before
    alerts_handed,  \* the argument tuples of the calls of send_discord_alert
    posts,          \* the requests sent to the webhook
    al_delivery,    \* "none", "ok" or "failed"
    al_state,       \* the state object in the Gold bucket
    al_return,      \* "", "Success" or "raise"
    al_printed      \* the last message of the run, "" if none

alert_vars ==
    <<webhook_url, al_prices, al_other, al_late, al_pc, al_output, latest_row,
      alerts_handed, posts, al_delivery, al_state, al_return, al_printed>>

(***************************************************************************)
(* State of BinanceTransformer.process_recent on one symbol, and of a      *)
(* reader of the master file of that symbol.                               *)
(***************************************************************************)
VARIABLES
    master_file,    \* historical_master.parquet of the symbol
    master_before,  \* the master file as it was before the run
    recent_exists,  \* the directory recent_daily/{coin} exists
    zip_files,      \* the daily files of the symbol, sorted by name
    bt_pc,          \* position of process_recent on the symbol
    combined_df,    \* the merged rows, <<>> before the merge
    bt_logged,      \* the last message logged for the symbol, "" if none
    seen            \* what the reader found in the master file, one per read

binance_vars ==
    <<master_file, master_before, recent_exists, zip_files, bt_pc,
      combined_df, bt_logged, seen>>

vars == <<gold_vars, merge_vars, bronze_vars, analysis_vars, silver_vars, alert_vars, binance_vars>>

(***************************************************************************)
(* The merge of process_analysis.                                          *)
(***************************************************************************)
\* main.py:135-144: UNION ALL of history and new data, or the new data alone
raw_combined(has_hist, hist, new) ==
    IF has_hist THEN hist \cup new ELSE new

\* main.py:150-152: SELECT DISTINCT * compares whole rows; rows are kept in
\* sets, so two rows collapse exactly when they agree on every column.
deduplicated_data(has_hist, hist, new) == raw_combined(has_hist, hist, new)

\* main.py:195: QUALIFY ROW_NUMBER() OVER (PARTITION BY coin_id ORDER BY
\* source_updated_at DESC) <= 500.  Rows of one coin with equal
\* source_updated_at are numbered in an order SQL leaves open, so the kept
\* set is any set of min(n, RETENTION) rows per coin none of which is older
\* than a dropped row of that coin.
KeepsOldest(K, rows) ==
    \A c \in CoinIds :
        LET Rc == RowsOfCoin(rows, c)
            Kc == RowsOfCoin(K, c)
        IN  /\ Cardinality(Kc) = Min(Cardinality(Rc), RETENTION)
            /\ \A k \in Kc : \A d \in Rc \ Kc :
                   k.source_updated_at <= d.source_updated_at

KeepsNewest(K, rows) ==
    \A c \in CoinIds :
        LET Rc == RowsOfCoin(rows, c)
            Kc == RowsOfCoin(K, c)
        IN  /\ Cardinality(Kc) = Min(Cardinality(Rc), RETENTION)
            /\ \A k \in Kc : \A d \in Rc \ Kc :
                   k.source_updated_at >= d.source_updated_at

QualifyRowNumber(rows) == {K \in SUBSET rows : KeepsNewest(K, rows)}

\* main.py:149-197: the rows the query can write to local_output
QueryOutputs(has_hist, hist, new) ==
    QualifyRowNumber(deduplicated_data(has_hist, hist, new))


\* cold start: the state object does not exist and no event has fired
InitGold ==
    /\ gold_blob = NoBlob
    /\ gold_gen = 0
    /\ blob_src = {}
    /\ pc = [i \in Invocations |-> "idle"]
    /\ local_new_data = [i \in Invocations |-> {}]
    /\ local_history = [i \in Invocations |-> {}]
    /\ has_history = [i \in Invocations |-> FALSE]
    /\ local_output = [i \in Invocations |-> {}]
    /\ loaded_gen = [i \in Invocations |-> 0]
    /\ loaded_src = [i \in Invocations |-> {}]
    /\ saved_gen = [i \in Invocations |-> 0]
    \* the other components are left out
    /\ m_pc = "off"
    /\ m_existing = NoBlob
    /\ m_incoming = {}
    /\ m_first = {}
    /\ m_again = {}
    /\ m_second = {}
    /\ b_pc = "off"
    /\ bucket_set = FALSE
    /\ coin_list = <<>>
    /\ loop_i = 0
    /\ batch_num = 0
    /\ attempt = 0
    /\ batch_data = <<>>
    /\ all_market_data = <<>>
    /\ clock = 0
    /\ capture_time = 0
    /\ log = <<>>
    /\ stored_payload = <<>>
    /\ result = 0
    /\ error_message = ""
    /\ a_pc = "off"
    /\ source_exists = FALSE
    /\ a_prices = <<>>
    /\ div_by_zero = "null"
    /\ a_out = <<>>
    /\ a_again = <<>>
    /\ a_error = ""
    /\ sv_env = "off"
    /\ buckets_set = FALSE
    /\ raw_files = <<>>
    /\ sv_run = 0
    /\ sv_pc = "off"
    /\ cleaned = NoBlob
    /\ sv_written = <<>>
    /\ sv_outcome = <<>>
    /\ sv_result = <<>>
    /\ sv_exit = <<>>
    /\ sv_printed = <<>>
    /\ webhook_url = ""
    /\ al_prices = <<>>
    /\ al_other = <<>>
    /\ al_late = 0
    /\ al_pc = "off"
    /\ al_output = {}
    /\ latest_row = <<>>
    /\ alerts_handed = <<>>
    /\ posts = <<>>
    /\ al_delivery = "none"
    /\ al_state = NoBlob
    /\ al_return = ""
    /\ al_printed = ""
    /\ master_file = [state |-> "absent", rows |-> <<>>]
    /\ master_before = [state |-> "absent", rows |-> <<>>]
    /\ recent_exists = FALSE
    /\ zip_files = <<>>
    /\ bt_pc = "off"
    /\ combined_df = <<>>
    /\ bt_logged = ""
    /\ seen = <<>>

\* main.py:91-105: the event fires and the new cleaned file is downloaded
DownloadNewData(i) ==
    /\ pc[i] = "idle"
    /\ \E N \in CleanedSnapshots :
           local_new_data' = [local_new_data EXCEPT ![i] = N]
    /\ pc' = [pc EXCEPT ![i] = "downloaded"]
    /\ UNCHANGED <<gold_blob, gold_gen, blob_src, local_history, has_history,
                   local_output, loaded_gen, loaded_src, saved_gen>>
    /\ UNCHANGED <<merge_vars, bronze_vars, analysis_vars, silver_vars,
                   alert_vars, binance_vars>>

HistoryNeverFound(blob) == FALSE

\* main.py:112: history_blob.exists()
HistoryExists(blob) == blob.exists

\* main.py:107-117: the history is downloaded when the state object exists
DownloadHistory(i) ==
    /\ pc[i] = "downloaded"
    /\ has_history' = [has_history EXCEPT ![i] = HistoryExists(gold_blob)]
    /\ local_history' =
           [local_history EXCEPT
               ![i] = IF HistoryExists(gold_blob) THEN gold_blob.rows ELSE {}]
    /\ loaded_gen' = [loaded_gen EXCEPT ![i] = gold_gen]
    /\ loaded_src' = [loaded_src EXCEPT ![i] = blob_src]
    /\ pc' = [pc EXCEPT ![i] = "loaded"]
    /\ UNCHANGED <<gold_blob, gold_gen, blob_src, local_new_data, local_output,
                   saved_gen>>
    /\ UNCHANGED <<merge_vars, bronze_vars, analysis_vars, silver_vars,
                   alert_vars, binance_vars>>

\* a run that takes a history it cannot download for a missing one
HistoryDownloadFailsResetting(i) ==
    /\ pc[i] = "downloaded"
    /\ HistoryExists(gold_blob)
    /\ loaded_gen' = [loaded_gen EXCEPT ![i] = gold_gen]
    /\ loaded_src' = [loaded_src EXCEPT ![i] = blob_src]
    /\ pc' = [pc EXCEPT ![i] = "loaded"]
    /\ UNCHANGED <<gold_blob, gold_gen, blob_src, local_new_data, local_history,
                   has_history, local_output, saved_gen>>
    /\ UNCHANGED <<merge_vars, bronze_vars, analysis_vars, silver_vars,
                   alert_vars, binance_vars>>

\* main.py:112-114 and 218-223: the state object exists and its download
\* raises; has_history is still False and the exception is re-raised
HistoryDownloadFails(i) ==
    /\ pc[i] = "downloaded"
    /\ HistoryExists(gold_blob)
    /\ loaded_gen' = [loaded_gen EXCEPT ![i] = gold_gen]
    /\ loaded_src' = [loaded_src EXCEPT ![i] = blob_src]
    /\ pc' = [pc EXCEPT ![i] = "failed"]
    /\ UNCHANGED <<gold_blob, gold_gen, blob_src, local_new_data, local_history,
                   has_history, local_output, saved_gen>>
    /\ UNCHANGED <<merge_vars, bronze_vars, analysis_vars, silver_vars,
                   alert_vars, binance_vars>>

\* main.py:134-199: union, query and COPY to local_output
RunQuery(i) ==
    /\ pc[i] = "loaded"
    /\ \E K \in QueryOutputs(has_history[i], local_history[i], local_new_data[i]) :
           local_output' = [local_output EXCEPT ![i] = K]
    /\ pc' = [pc EXCEPT ![i] = "computed"]
    /\ UNCHANGED <<gold_blob, gold_gen, blob_src, local_new_data, local_history,
                   has_history, loaded_gen, loaded_src, saved_gen>>
    /\ UNCHANGED <<merge_vars, bronze_vars, analysis_vars, silver_vars,
                   alert_vars, binance_vars>>

\* main.py:208-216: upload_from_filename overwrites the state object
SaveState(i) ==
    /\ pc[i] = "computed"
    /\ gold_blob' = Blob(local_output[i])
    /\ gold_gen' = gold_gen + 1
    /\ blob_src' = local_new_data[i]
    /\ saved_gen' = [saved_gen EXCEPT ![i] = gold_gen + 1]
    /\ pc' = [pc EXCEPT ![i] = "done"]
    /\ UNCHANGED <<local_new_data, local_history, has_history, local_output,
                   loaded_gen, loaded_src>>
    /\ UNCHANGED <<merge_vars, bronze_vars, analysis_vars, silver_vars,
                   alert_vars, binance_vars>>

\* main.py:218-223: an exception of a download, of the query or of the upload
\* is re-raised; the state object is not written
RaiseError(i) ==
    /\ pc[i] \in {"downloaded", "loaded", "computed"}
    /\ pc' = [pc EXCEPT ![i] = "failed"]
    /\ UNCHANGED <<gold_blob, gold_gen, blob_src, local_new_data, local_history,
                   has_history, local_output, loaded_gen, loaded_src, saved_gen>>
    /\ UNCHANGED <<merge_vars, bronze_vars, analysis_vars, silver_vars,
                   alert_vars, binance_vars>>

NextGold ==
    \E i \in Invocations :
        \/ DownloadNewData(i)
        \/ DownloadHistory(i)
        \/ HistoryDownloadFails(i)
        \/ RunQuery(i)
        \/ SaveState(i)
        \/ RaiseError(i)


(***************************************************************************)
(* The merge as a function of its two inputs: merge_and_prune(existing,    *)
(* incoming) is main.py:134-197 applied to a history and a cleaned file,   *)
(* and applied again to its own result.                                    *)
(***************************************************************************)
\* The histories a state object can hold: written by main.py:195, it has at
\* most RETENTION rows per coin.
StoredHistories ==
    {H \in SUBSET RowUniverse :
        \A c \in CoinIds : Cardinality(RowsOfCoin(H, c)) <= RETENTION}


InitMerge ==
    /\ m_pc = "init"
    /\ m_existing \in {NoBlob} \cup {Blob(H) : H \in StoredHistories}
    /\ m_incoming \in CleanedSnapshots
    /\ m_first = {}
    /\ m_again = {}
    /\ m_second = {}
    \* the other components are left out
    /\ gold_blob = NoBlob
    /\ gold_gen = 0
    /\ blob_src = {}
    /\ pc = [i \in Invocations |-> "off"]
    /\ local_new_data = [i \in Invocations |-> {}]
    /\ local_history = [i \in Invocations |-> {}]
    /\ has_history = [i \in Invocations |-> FALSE]
    /\ local_output = [i \in Invocations |-> {}]
    /\ loaded_gen = [i \in Invocations |-> 0]
    /\ loaded_src = [i \in Invocations |-> {}]
    /\ saved_gen = [i \in Invocations |-> 0]
    /\ b_pc = "off"
    /\ bucket_set = FALSE
    /\ coin_list = <<>>
    /\ loop_i = 0
    /\ batch_num = 0
    /\ attempt = 0
    /\ batch_data = <<>>
    /\ all_market_data = <<>>
    /\ clock = 0
    /\ capture_time = 0
    /\ log = <<>>
    /\ stored_payload = <<>>
    /\ result = 0
    /\ error_message = ""
    /\ a_pc = "off"
    /\ source_exists = FALSE
    /\ a_prices = <<>>
    /\ div_by_zero = "null"
    /\ a_out = <<>>
    /\ a_again = <<>>
    /\ a_error = ""
    /\ sv_env = "off"
    /\ buckets_set = FALSE
    /\ raw_files = <<>>
    /\ sv_run = 0
    /\ sv_pc = "off"
    /\ cleaned = NoBlob
    /\ sv_written = <<>>
    /\ sv_outcome = <<>>
    /\ sv_result = <<>>
    /\ sv_exit = <<>>
    /\ sv_printed = <<>>
    /\ webhook_url = ""
    /\ al_prices = <<>>
    /\ al_other = <<>>
    /\ al_late = 0
    /\ al_pc = "off"
    /\ al_output = {}
    /\ latest_row = <<>>
    /\ alerts_handed = <<>>
    /\ posts = <<>>
    /\ al_delivery = "none"
    /\ al_state = NoBlob
    /\ al_return = ""
    /\ al_printed = ""
    /\ master_file = [state |-> "absent", rows |-> <<>>]
    /\ master_before = [state |-> "absent", rows |-> <<>>]
    /\ recent_exists = FALSE
    /\ zip_files = <<>>
    /\ bt_pc = "off"
    /\ combined_df = <<>>
    /\ bt_logged = ""
    /\ seen = <<>>

\* main.py:134-199 on (existing, incoming)
MergeOnce ==
    /\ m_pc = "init"
    /\ m_first' \in QueryOutputs(HistoryExists(m_existing), m_existing.rows,
                                 m_incoming)
    /\ m_pc' = "merged"
    /\ UNCHANGED <<m_existing, m_incoming, m_again, m_second>>
    /\ UNCHANGED <<gold_vars, bronze_vars, analysis_vars, silver_vars,
                   alert_vars, binance_vars>>

\* main.py:134-199 on (the first result, X) for X empty or the same snapshot
MergeAgain ==
    /\ m_pc = "merged"
    /\ m_again' \in {{}, m_incoming}
    /\ m_second' \in QueryOutputs(TRUE, m_first, m_again')
    /\ m_pc' = "reapplied"
    /\ UNCHANGED <<m_existing, m_incoming, m_first>>
    /\ UNCHANGED <<gold_vars, bronze_vars, analysis_vars, silver_vars,
                   alert_vars, binance_vars>>

NextMerge == MergeOnce \/ MergeAgain

(***************************************************************************)
(* The Bronze fetch cycle: cloud_functions/bronze/main.py.                 *)
(***************************************************************************)
\* bronze/main.py:16 sets BATCH_SIZE = 50; the model batches by BATCH_SIZE.
BATCH_SIZE == 2
\* the coin list holds 1..MaxCoins ids
MaxCoins == 5

\* one attempt more than the code makes
max_retries_raised == 3 + 1

\* bronze/main.py:56
max_retries == 3

\* statuses other than 200 and 429 that the provider answers with
OtherStatuses == {404, 500}

\* the exception message the local fail-fast ingestion raises on a 429
RateLimitMessage == "Rate limit hit (429)"

\* bronze/main.py:129: the ids of the request, here 1..n
CoinLists == {[k \in 1..n |-> k] : n \in 1..MaxCoins}

\* bronze/main.py:130
total_coins == Len(coin_list)

\* math.ceil(n / b) for positive b
ceil_div(n, b) == (n + b - 1) \div b

\* bronze/main.py:133: math.ceil(total_coins / BATCH_SIZE)
total_batches == ceil_div(total_coins, BATCH_SIZE)

\* a slice that reaches one id into the next batch
current_batch_ids_overlapping ==
    SubSeq(coin_list, loop_i + 1, Min(loop_i + BATCH_SIZE + 1, total_coins))

\* bronze/main.py:140: coin_list[i : i + BATCH_SIZE]
current_batch_ids ==
    SubSeq(coin_list, loop_i + 1, Min(loop_i + BATCH_SIZE, total_coins))

\* bronze/main.py:69: (2 ** attempt) * 5
wait_time(a) == (2 ^ a) * 5

\* bronze/main.py:65: the JSON bodies a 200 response can carry for a batch:
\* the records of a prefix of the requested ids, none of them or all of them
BodiesFor(ids) == {[k \in 1..j |-> [id |-> ids[k]]] : j \in 0..Len(ids)}

\* an entry of the log: a request (code: attempt, body: the ids asked for),
\* a response (code: status, body: the JSON list of a 200), an exception of requests.get, a backoff
\* sleep or an inter-batch sleep (code: seconds)
Event(type, batch, code, body) ==
    [type |-> type, batch |-> batch, code |-> code, body |-> body]


\* the HTTP request arrives: bucket configuration and coin list are inputs
InitBronze ==
    /\ b_pc = "start"
    /\ bucket_set \in BOOLEAN
    /\ coin_list \in CoinLists
    /\ loop_i = 0
    /\ batch_num = 0
    /\ attempt = 0
    /\ batch_data = <<>>
    /\ all_market_data = <<>>
    /\ clock = 0
    /\ capture_time = 0
    /\ log = <<>>
    /\ stored_payload = <<>>
    /\ result = 0
    /\ error_message = ""
    \* the other components are left out
    /\ gold_blob = NoBlob
    /\ gold_gen = 0
    /\ blob_src = {}
    /\ pc = [i \in Invocations |-> "off"]
    /\ local_new_data = [i \in Invocations |-> {}]
    /\ local_history = [i \in Invocations |-> {}]
    /\ has_history = [i \in Invocations |-> FALSE]
    /\ local_output = [i \in Invocations |-> {}]
    /\ loaded_gen = [i \in Invocations |-> 0]
    /\ loaded_src = [i \in Invocations |-> {}]
    /\ saved_gen = [i \in Invocations |-> 0]
    /\ m_pc = "off"
    /\ m_existing = NoBlob
    /\ m_incoming = {}
    /\ m_first = {}
    /\ m_again = {}
    /\ m_second = {}
    /\ a_pc = "off"
    /\ source_exists = FALSE
    /\ a_prices = <<>>
    /\ div_by_zero = "null"
    /\ a_out = <<>>
    /\ a_again = <<>>
    /\ a_error = ""
    /\ sv_env = "off"
    /\ buckets_set = FALSE
    /\ raw_files = <<>>
    /\ sv_run = 0
    /\ sv_pc = "off"
    /\ cleaned = NoBlob
    /\ sv_written = <<>>
    /\ sv_outcome = <<>>
    /\ sv_result = <<>>
    /\ sv_exit = <<>>
    /\ sv_printed = <<>>
    /\ webhook_url = ""
    /\ al_prices = <<>>
    /\ al_other = <<>>
    /\ al_late = 0
    /\ al_pc = "off"
    /\ al_output = {}
    /\ latest_row = <<>>
    /\ alerts_handed = <<>>
    /\ posts = <<>>
    /\ al_delivery = "none"
    /\ al_state = NoBlob
    /\ al_return = ""
    /\ al_printed = ""
    /\ master_file = [state |-> "absent", rows |-> <<>>]
    /\ master_before = [state |-> "absent", rows |-> <<>>]
    /\ recent_exists = FALSE
    /\ zip_files = <<>>
    /\ bt_pc = "off"
    /\ combined_df = <<>>
    /\ bt_logged = ""
    /\ seen = <<>>

\* bronze/main.py:108-141: bucket check, capture time, first batch
StartIngestion ==
    /\ b_pc = "start"
    /\ IF ~bucket_set
       THEN /\ b_pc' = "done"
            /\ result' = 500
            /\ UNCHANGED <<capture_time, batch_num>>
       ELSE /\ b_pc' = "fetching"
            /\ capture_time' = clock
            /\ batch_num' = 1
            /\ UNCHANGED result
    /\ UNCHANGED <<bucket_set, coin_list, loop_i, attempt, batch_data,
                   all_market_data, clock, log, stored_payload, error_message>>
    /\ UNCHANGED <<gold_vars, merge_vars, analysis_vars, silver_vars,
                   alert_vars, binance_vars>>

\* bronze/main.py:61-65: the request is answered 200 and the body returned
Request200 ==
    /\ b_pc = "fetching"
    /\ \E body \in BodiesFor(current_batch_ids) :
           /\ batch_data' = body
           /\ log' = log \o <<Event("request", batch_num, attempt,
                             current_batch_ids),
                              Event("response", batch_num, 200, body)>>
    /\ clock' = clock + 1
    /\ b_pc' = "batch_returned"
    /\ UNCHANGED <<bucket_set, coin_list, loop_i, batch_num, attempt,
                   all_market_data, capture_time, stored_payload, result,
                   error_message>>
    /\ UNCHANGED <<gold_vars, merge_vars, analysis_vars, silver_vars,
                   alert_vars, binance_vars>>

\* bronze/main.py:58-72 and 82-84: the request is answered 429; the function
\* sleeps wait_time and tries again, or returns [] when the loop is over
Request429 ==
    /\ b_pc = "fetching"
    /\ log' = log \o <<Event("request", batch_num, attempt,
                             current_batch_ids),
                       Event("response", batch_num, 429, <<>>),
                       Event("backoff", batch_num, wait_time(attempt), <<>>)>>
    /\ clock' = clock + 1 + wait_time(attempt)
    /\ attempt' = attempt + 1
    /\ IF attempt + 1 < max_retries
       THEN UNCHANGED <<b_pc, batch_data>>
       ELSE /\ batch_data' = <<>>
            /\ b_pc' = "batch_returned"
    /\ UNCHANGED <<bucket_set, coin_list, loop_i, batch_num,
                   all_market_data, capture_time, stored_payload, result,
                   error_message>>
    /\ UNCHANGED <<gold_vars, merge_vars, analysis_vars, silver_vars,
                   alert_vars, binance_vars>>

\* a fetcher that treats any other status as it treats a 429
RequestOtherStatusRetried ==
    /\ b_pc = "fetching"
    /\ \E st \in OtherStatuses :
           log' = log \o <<Event("request", batch_num, attempt,
                             current_batch_ids),
                           Event("response", batch_num, st, <<>>),
                           Event("backoff", batch_num, wait_time(attempt), <<>>)>>
    /\ clock' = clock + 1 + wait_time(attempt)
    /\ attempt' = attempt + 1
    /\ IF attempt + 1 < max_retries
       THEN UNCHANGED <<b_pc, batch_data>>
       ELSE /\ batch_data' = <<>>
            /\ b_pc' = "batch_returned"
    /\ UNCHANGED <<bucket_set, coin_list, loop_i, batch_num,
                   all_market_data, capture_time, stored_payload, result,
                   error_message>>
    /\ UNCHANGED <<gold_vars, merge_vars, analysis_vars, silver_vars,
                   alert_vars, binance_vars>>

\* bronze/main.py:74-76: any other status gives up on the batch
RequestOtherStatus ==
    /\ b_pc = "fetching"
    /\ \E st \in OtherStatuses :
           log' = log \o <<Event("request", batch_num, attempt,
                             current_batch_ids),
                           Event("response", batch_num, st, <<>>)>>
    /\ clock' = clock + 1
    /\ batch_data' = <<>>
    /\ b_pc' = "batch_returned"
    /\ UNCHANGED <<bucket_set, coin_list, loop_i, batch_num, attempt,
                   all_market_data, capture_time, stored_payload, result,
                   error_message>>
    /\ UNCHANGED <<gold_vars, merge_vars, analysis_vars, silver_vars,
                   alert_vars, binance_vars>>

\* a fetcher that treats a RequestException as it treats a 429
RequestNetworkErrorRetried ==
    /\ b_pc = "fetching"
    /\ log' = log \o <<Event("request", batch_num, attempt,
                             current_batch_ids),
                       Event("exception", batch_num, 0, <<>>),
                       Event("backoff", batch_num, wait_time(attempt), <<>>)>>
    /\ clock' = clock + 1 + wait_time(attempt)
    /\ attempt' = attempt + 1
    /\ IF attempt + 1 < max_retries
       THEN UNCHANGED <<b_pc, batch_data>>
       ELSE /\ batch_data' = <<>>
            /\ b_pc' = "batch_returned"
    /\ UNCHANGED <<bucket_set, coin_list, loop_i, batch_num,
                   all_market_data, capture_time, stored_payload, result,
                   error_message>>
    /\ UNCHANGED <<gold_vars, merge_vars, analysis_vars, silver_vars,
                   alert_vars, binance_vars>>

\* bronze/main.py:78-80: requests.get raises a RequestException
RequestNetworkError ==
    /\ b_pc = "fetching"
    /\ log' = log \o <<Event("request", batch_num, attempt,
                             current_batch_ids),
                       Event("exception", batch_num, 0, <<>>)>>
    /\ clock' = clock + 1
    /\ batch_data' = <<>>
    /\ b_pc' = "batch_returned"
    /\ UNCHANGED <<bucket_set, coin_list, loop_i, batch_num, attempt,
                   all_market_data, capture_time, stored_payload, result,
                   error_message>>
    /\ UNCHANGED <<gold_vars, merge_vars, analysis_vars, silver_vars,
                   alert_vars, binance_vars>>

\* a batch loop that stops at the first batch without data
FinishBatchAborting ==
    /\ b_pc = "batch_returned"
    /\ all_market_data' =
           IF batch_data # <<>> THEN all_market_data \o batch_data
                                ELSE all_market_data
    /\ IF batch_num < total_batches
       THEN /\ log' = Append(log, Event("inter_batch", batch_num, 2, <<>>))
            /\ clock' = clock + 2
       ELSE UNCHANGED <<log, clock>>
    /\ IF loop_i + BATCH_SIZE < total_coins /\ batch_data # <<>>
       THEN /\ loop_i' = loop_i + BATCH_SIZE
            /\ batch_num' = ((loop_i + BATCH_SIZE) \div BATCH_SIZE) + 1
            /\ attempt' = 0
            /\ b_pc' = "fetching"
       ELSE /\ b_pc' = "store"
            /\ UNCHANGED <<loop_i, batch_num, attempt>>
    /\ UNCHANGED <<bucket_set, coin_list, batch_data, capture_time,
                   stored_payload, result, error_message>>
    /\ UNCHANGED <<gold_vars, merge_vars, analysis_vars, silver_vars,
                   alert_vars, binance_vars>>

\* a batch loop that sleeps after every batch, the last one included
FinishBatchAlwaysSleeping ==
    /\ b_pc = "batch_returned"
    /\ all_market_data' =
           IF batch_data # <<>> THEN all_market_data \o batch_data
                                ELSE all_market_data
    /\ log' = Append(log, Event("inter_batch", batch_num, 2, <<>>))
    /\ clock' = clock + 2
    /\ IF loop_i + BATCH_SIZE < total_coins
       THEN /\ loop_i' = loop_i + BATCH_SIZE
            /\ batch_num' = ((loop_i + BATCH_SIZE) \div BATCH_SIZE) + 1
            /\ attempt' = 0
            /\ b_pc' = "fetching"
       ELSE /\ b_pc' = "store"
            /\ UNCHANGED <<loop_i, batch_num, attempt>>
    /\ UNCHANGED <<bucket_set, coin_list, batch_data, capture_time,
                   stored_payload, result, error_message>>
    /\ UNCHANGED <<gold_vars, merge_vars, analysis_vars, silver_vars,
                   alert_vars, binance_vars>>

\* bronze/main.py:139-156: the batch's records are kept, the loop sleeps
\* between batches and moves on
FinishBatch ==
    /\ b_pc = "batch_returned"
    /\ all_market_data' =
           IF batch_data # <<>> THEN all_market_data \o batch_data
                                ELSE all_market_data
    /\ IF batch_num < total_batches
       THEN /\ log' = Append(log, Event("inter_batch", batch_num, 2, <<>>))
            /\ clock' = clock + 2
       ELSE UNCHANGED <<log, clock>>
    /\ IF loop_i + BATCH_SIZE < total_coins
       THEN /\ loop_i' = loop_i + BATCH_SIZE
            /\ batch_num' = ((loop_i + BATCH_SIZE) \div BATCH_SIZE) + 1
            /\ attempt' = 0
            /\ b_pc' = "fetching"
       ELSE /\ b_pc' = "store"
            /\ UNCHANGED <<loop_i, batch_num, attempt>>
    /\ UNCHANGED <<bucket_set, coin_list, batch_data, capture_time,
                   stored_payload, result, error_message>>
    /\ UNCHANGED <<gold_vars, merge_vars, analysis_vars, silver_vars,
                   alert_vars, binance_vars>>

\* records stamped with the time of the injection
InjectLineageLate(records) ==
    [k \in 1..Len(records) |->
        [id |-> records[k].id, ingested_timestamp |-> clock]]

\* bronze/main.py:160-161: every record gets the capture time
InjectLineage(records) ==
    [k \in 1..Len(records) |->
        [id |-> records[k].id, ingested_timestamp |-> capture_time]]

\* bronze/main.py:158-185: lineage injection and upload
StorePayload ==
    /\ b_pc = "store"
    /\ all_market_data' = InjectLineage(all_market_data)
    /\ IF all_market_data = <<>>
       THEN /\ result' = 200
            /\ UNCHANGED stored_payload
       ELSE \E uploaded \in BOOLEAN :
                IF uploaded
                THEN /\ stored_payload' = InjectLineage(all_market_data)
                     /\ result' = 200
                ELSE /\ result' = 500
                     /\ UNCHANGED stored_payload
    /\ b_pc' = "done"
    /\ UNCHANGED <<bucket_set, coin_list, loop_i, batch_num, attempt,
                   batch_data, clock, capture_time, log,
                   error_message>>
    /\ UNCHANGED <<gold_vars, merge_vars, analysis_vars, silver_vars,
                   alert_vars, binance_vars>>

NextBronze ==
    \/ StartIngestion
    \/ Request200
    \/ Request429
    \/ RequestOtherStatus
    \/ RequestNetworkError
    \/ FinishBatch
    \/ StorePayload

(***************************************************************************)
(* The local Bronze ingestion in fail-fast mode.  Its module                *)
(* (pipeline.bronze.ingest.process_ingestion, exercised by                 *)
(* tests/pipeline/test_bronze.py) is not part of the sources; it is        *)
(* modelled from the specification: same batching, retry on a rate limit   *)
(* up to max_retries with exponential backoff, and any failed batch aborts *)
(* the cycle and propagates the error.                                     *)
(***************************************************************************)
\* the local run starts with its coin list; it has no bucket to configure
InitLocalBronze ==
    /\ b_pc = "start"
    /\ bucket_set = TRUE
    /\ coin_list \in CoinLists
    /\ loop_i = 0
    /\ batch_num = 0
    /\ attempt = 0
    /\ batch_data = <<>>
    /\ all_market_data = <<>>
    /\ clock = 0
    /\ capture_time = 0
    /\ log = <<>>
    /\ stored_payload = <<>>
    /\ result = 0
    /\ error_message = ""
    \* the other components are left out
    /\ gold_blob = NoBlob
    /\ gold_gen = 0
    /\ blob_src = {}
    /\ pc = [i \in Invocations |-> "off"]
    /\ local_new_data = [i \in Invocations |-> {}]
    /\ local_history = [i \in Invocations |-> {}]
    /\ has_history = [i \in Invocations |-> FALSE]
    /\ local_output = [i \in Invocations |-> {}]
    /\ loaded_gen = [i \in Invocations |-> 0]
    /\ loaded_src = [i \in Invocations |-> {}]
    /\ saved_gen = [i \in Invocations |-> 0]
    /\ m_pc = "off"
    /\ m_existing = NoBlob
    /\ m_incoming = {}
    /\ m_first = {}
    /\ m_again = {}
    /\ m_second = {}
    /\ a_pc = "off"
    /\ source_exists = FALSE
    /\ a_prices = <<>>
    /\ div_by_zero = "null"
    /\ a_out = <<>>
    /\ a_again = <<>>
    /\ a_error = ""
    /\ sv_env = "off"
    /\ buckets_set = FALSE
    /\ raw_files = <<>>
    /\ sv_run = 0
    /\ sv_pc = "off"
    /\ cleaned = NoBlob
    /\ sv_written = <<>>
    /\ sv_outcome = <<>>
    /\ sv_result = <<>>
    /\ sv_exit = <<>>
    /\ sv_printed = <<>>
    /\ webhook_url = ""
    /\ al_prices = <<>>
    /\ al_other = <<>>
    /\ al_late = 0
    /\ al_pc = "off"
    /\ al_output = {}
    /\ latest_row = <<>>
    /\ alerts_handed = <<>>
    /\ posts = <<>>
    /\ al_delivery = "none"
    /\ al_state = NoBlob
    /\ al_return = ""
    /\ al_printed = ""
    /\ master_file = [state |-> "absent", rows |-> <<>>]
    /\ master_before = [state |-> "absent", rows |-> <<>>]
    /\ recent_exists = FALSE
    /\ zip_files = <<>>
    /\ bt_pc = "off"
    /\ combined_df = <<>>
    /\ bt_logged = ""
    /\ seen = <<>>

\* a local fetcher that gives the batch up on a rate limit and goes on
LocalRequest429Skipping ==
    /\ b_pc = "fetching"
    /\ log' = log \o <<Event("request", batch_num, attempt,
                             current_batch_ids),
                       Event("response", batch_num, 429, <<>>)>>
    /\ attempt' = attempt + 1
    /\ IF attempt + 1 < max_retries
       THEN /\ clock' = clock + 1 + wait_time(attempt)
            /\ UNCHANGED <<b_pc, batch_data>>
       ELSE /\ clock' = clock + 1
            /\ batch_data' = <<>>
            /\ b_pc' = "batch_returned"
    /\ UNCHANGED <<bucket_set, coin_list, loop_i, batch_num, error_message,
                   all_market_data, capture_time, stored_payload, result>>
    /\ UNCHANGED <<gold_vars, merge_vars, analysis_vars, silver_vars,
                   alert_vars, binance_vars>>

\* the request is answered 429: the same batch is tried again after the
\* backoff wait; when the retries are used up the exception is raised
LocalRequest429 ==
    /\ b_pc = "fetching"
    /\ log' = log \o <<Event("request", batch_num, attempt,
                             current_batch_ids),
                       Event("response", batch_num, 429, <<>>)>>
    /\ attempt' = attempt + 1
    /\ IF attempt + 1 < max_retries
       THEN /\ clock' = clock + 1 + wait_time(attempt)
            /\ UNCHANGED <<b_pc, error_message>>
       ELSE /\ clock' = clock + 1
            /\ error_message' = RateLimitMessage
            /\ b_pc' = "raised"
    /\ UNCHANGED <<bucket_set, coin_list, loop_i, batch_num, batch_data,
                   all_market_data, capture_time, stored_payload, result>>
    /\ UNCHANGED <<gold_vars, merge_vars, analysis_vars, silver_vars,
                   alert_vars, binance_vars>>

\* any other status is not retried and aborts the cycle
LocalRequestOtherStatus ==
    /\ b_pc = "fetching"
    /\ \E st \in OtherStatuses :
           log' = log \o <<Event("request", batch_num, attempt,
                             current_batch_ids),
                           Event("response", batch_num, st, <<>>)>>
    /\ clock' = clock + 1
    /\ error_message' = "API Error"
    /\ b_pc' = "raised"
    /\ UNCHANGED <<bucket_set, coin_list, loop_i, batch_num, attempt,
                   batch_data, all_market_data, capture_time, stored_payload,
                   result>>
    /\ UNCHANGED <<gold_vars, merge_vars, analysis_vars, silver_vars,
                   alert_vars, binance_vars>>

\* the raw payload file is written once every batch has been fetched
LocalWriteFile ==
    /\ b_pc = "store"
    /\ all_market_data' = InjectLineage(all_market_data)
    /\ stored_payload' = InjectLineage(all_market_data)
    /\ b_pc' = "done"
    /\ UNCHANGED <<bucket_set, coin_list, loop_i, batch_num, attempt,
                   batch_data, clock, capture_time, log, result,
                   error_message>>
    /\ UNCHANGED <<gold_vars, merge_vars, analysis_vars, silver_vars,
                   alert_vars, binance_vars>>

NextLocalBronze ==
    \/ StartIngestion
    \/ Request200
    \/ LocalRequest429
    \/ LocalRequestOtherStatus
    \/ FinishBatch
    \/ LocalWriteFile

(***************************************************************************)
(* The analytical query: pipeline/gold/analyze.py:71-146 (local) and       *)
(* cloud_functions/gold/main.py:149-197 (cloud), applied to the rows of    *)
(* one coin with distinct source_updated_at.  DOUBLE arithmetic is         *)
(* modelled by exact fractions <<numerator, denominator>>.                 *)
(***************************************************************************)
\* gold/main.py:14 and analyze.py:14
WINDOW_SIZE == 7
\* gold/main.py:15 and analyze.py:15
RSI_PERIOD == 14

\* the longest flat run, free tail and rising run of the price sequences
MaxFlat == 6
MaxTail == 3
MaxRise == 15

\* current_price values: those of tests/pipeline/test_gold.py:36-56
Prices == {50, 100, 200}

Abs(x) == IF x >= 0 THEN x ELSE 0 - x

RECURSIVE GCD(_, _)
GCD(a, b) == IF b = 0 THEN a ELSE GCD(b, a % b)

\* the fraction n / d in lowest terms, d positive
Rat(n, d) == LET g == GCD(Abs(n), d) IN <<n \div g, d \div g>>

Whole(n) == <<n, 1>>
RatAdd(a, b) == Rat(a[1] * b[2] + b[1] * a[2], a[2] * b[2])
RatSub(a, b) == Rat(a[1] * b[2] - b[1] * a[2], a[2] * b[2])
\* a / b for positive b
RatDiv(a, b) == Rat(a[1] * b[2], a[2] * b[1])
RatLess(a, b) == a[1] * b[2] < b[1] * a[2]

RECURSIVE SumFrom(_, _, _)
SumFrom(f, lo, hi) == IF lo > hi THEN 0 ELSE f[hi] + SumFrom(f, lo, hi - 1)

\* the rows of a coin with the given prices, oldest first
Rows(prices) ==
    [i \in 1..Len(prices) |->
        [source_updated_at |-> i, current_price |-> prices[i]]]

\* the free tails and flat runs the price sequences are made of
Tails == UNION {[1..n -> Prices] : n \in 0..MaxTail}
Flat(k) == [i \in 1..k |-> 100]
Rising(n, step) == [i \in 1..n |-> step * i]

\* the price histories of a coin: a flat run followed by a free tail, or a
\* free start followed by a long rising run
PriceSequences ==
    ({Flat(k) \o t : k \in 0..MaxFlat, t \in Tails} \cup
     {t \o Rising(n, step) : t \in {<<>>, <<200>>}, n \in (RSI_PERIOD - 1)..MaxRise,
                             step \in {1, 10}}) \ {<<>>}

\* ROWS BETWEEN size - 1 PRECEDING AND CURRENT ROW: the first row of the frame
FrameStart(i, size) == Max(1, i - (size - 1))

\* main.py:155, analyze.py:76-78: LAG gives NULL on the first row, and the
\* CASE of avg_gain/avg_loss takes its ELSE 0 on a NULL price_diff
price_diff(rows, i) ==
    IF i = 1 THEN 0 ELSE rows[i].current_price - rows[i - 1].current_price

\* main.py:164, analyze.py:99: CASE WHEN price_diff > 0 THEN price_diff ELSE 0
gain(rows) ==
    [i \in 1..Len(rows) |->
        IF price_diff(rows, i) > 0 THEN price_diff(rows, i) ELSE 0]

\* main.py:165, analyze.py:104: CASE WHEN price_diff < 0 THEN ABS(price_diff)
loss(rows) ==
    [i \in 1..Len(rows) |->
        IF price_diff(rows, i) < 0 THEN Abs(price_diff(rows, i)) ELSE 0]

\* main.py:161, analyze.py:88-91
sma_7d(rows, i) ==
    Rat(SumFrom([k \in 1..Len(rows) |-> rows[k].current_price],
                FrameStart(i, WINDOW_SIZE), i),
        i - FrameStart(i, WINDOW_SIZE) + 1)

\* main.py:164, analyze.py:99-102
avg_gain(rows, i) ==
    Rat(SumFrom(gain(rows), FrameStart(i, RSI_PERIOD), i),
        i - FrameStart(i, RSI_PERIOD) + 1)

\* main.py:165, analyze.py:104-107
avg_loss(rows, i) ==
    Rat(SumFrom(loss(rows), FrameStart(i, RSI_PERIOD), i),
        i - FrameStart(i, RSI_PERIOD) + 1)

\* 100 - (100 / (1 + (avg_gain / avg_loss))) for a positive avg_loss
rsi_formula(g, l) ==
    RatSub(Whole(100), RatDiv(Whole(100), RatAdd(Whole(1), RatDiv(g, l))))

\* an RSI without the fallback value of the avg_loss = 0 case
rsi_14d_no_fallback(rows, i) ==
    IF avg_loss(rows, i) = Whole(0) THEN Whole(0)
    ELSE rsi_formula(avg_gain(rows, i), avg_loss(rows, i))

\* main.py:170, analyze.py:123-126
rsi_14d(rows, i) ==
    IF avg_loss(rows, i) = Whole(0) THEN Whole(100)
    ELSE rsi_formula(avg_gain(rows, i), avg_loss(rows, i))

\* main.py:184-188: the signal is taken from the rsi_14d column
signal(price, sma, rsi) ==
    IF RatLess(Whole(price), sma) /\ RatLess(rsi, Whole(30)) THEN "BUY"
    ELSE IF RatLess(sma, Whole(price)) /\ RatLess(Whole(70), rsi) THEN "SELL"
    ELSE "WAIT"

\* analyze.py:131 and 134: the formula is written out again without the
\* avg_loss = 0 case.  With avg_loss = 0 the engine's division gives NULL, or
\* with IEEE arithmetic infinity (the formula is then 100) or NaN (0 / 0).
unguarded_rsi(rows, i) ==
    IF avg_loss(rows, i) # Whole(0)
    THEN [kind |-> "number",
          value |-> rsi_formula(avg_gain(rows, i), avg_loss(rows, i))]
    ELSE IF div_by_zero = "null" THEN [kind |-> "null", value |-> Whole(0)]
    ELSE IF avg_gain(rows, i) # Whole(0)
         THEN [kind |-> "number", value |-> Whole(100)]
         ELSE [kind |-> "nan", value |-> Whole(0)]

\* analyze.py:129-137: a comparison with NULL is not true; NaN sorts above
\* every number
local_signal(price, sma, u) ==
    IF /\ RatLess(Whole(price), sma)
       /\ u.kind = "number" /\ RatLess(u.value, Whole(30)) THEN "BUY"
    ELSE IF /\ RatLess(sma, Whole(price))
            /\ \/ u.kind = "number" /\ RatLess(Whole(70), u.value)
               \/ u.kind = "nan" THEN "SELL"
    ELSE "WAIT"

\* main.py:149-197 before QUALIFY: every row with its computed columns
final_calculations(rows) ==
    [i \in 1..Len(rows) |->
        [source_updated_at |-> rows[i].source_updated_at,
         current_price |-> rows[i].current_price,
         sma_7d |-> sma_7d(rows, i),
         rsi_14d |-> rsi_14d(rows, i),
         signal |-> signal(rows[i].current_price, sma_7d(rows, i),
                           rsi_14d(rows, i))]]

\* main.py:149-197: the computed rows, the RETENTION most recent of them
CloudQuery(rows) ==
    SubSeq(final_calculations(rows), Max(1, Len(rows) - RETENTION + 1),
           Len(rows))

\* analyze.py:71-146: every row with its computed columns
LocalQuery(rows) ==
    [i \in 1..Len(rows) |->
        [source_updated_at |-> rows[i].source_updated_at,
         current_price |-> rows[i].current_price,
         sma_7d |-> sma_7d(rows, i),
         rsi_14d |-> rsi_14d(rows, i),
         signal |-> local_signal(rows[i].current_price, sma_7d(rows, i),
                                 unguarded_rsi(rows, i))]]

\* main.py:125-132: the columns a later run reads back from the state
common_columns(out) ==
    [i \in 1..Len(out) |->
        [source_updated_at |-> out[i].source_updated_at,
         current_price |-> out[i].current_price]]

\* the cleaned file is there with the rows of a coin, or it is missing
InitAnalysis ==
    /\ a_pc = "start"
    /\ \/ source_exists = TRUE /\ a_prices \in PriceSequences
       \/ source_exists = FALSE /\ a_prices = <<>>
    /\ div_by_zero \in {"null", "ieee"}
    /\ a_out = <<>>
    /\ a_again = <<>>
    /\ a_error = ""
    \* the other components are left out
    /\ gold_blob = NoBlob
    /\ gold_gen = 0
    /\ blob_src = {}
    /\ pc = [i \in Invocations |-> "off"]
    /\ local_new_data = [i \in Invocations |-> {}]
    /\ local_history = [i \in Invocations |-> {}]
    /\ has_history = [i \in Invocations |-> FALSE]
    /\ local_output = [i \in Invocations |-> {}]
    /\ loaded_gen = [i \in Invocations |-> 0]
    /\ loaded_src = [i \in Invocations |-> {}]
    /\ saved_gen = [i \in Invocations |-> 0]
    /\ m_pc = "off"
    /\ m_existing = NoBlob
    /\ m_incoming = {}
    /\ m_first = {}
    /\ m_again = {}
    /\ m_second = {}
    /\ b_pc = "off"
    /\ bucket_set = FALSE
    /\ coin_list = <<>>
    /\ loop_i = 0
    /\ batch_num = 0
    /\ attempt = 0
    /\ batch_data = <<>>
    /\ all_market_data = <<>>
    /\ clock = 0
    /\ capture_time = 0
    /\ log = <<>>
    /\ stored_payload = <<>>
    /\ result = 0
    /\ error_message = ""
    /\ sv_env = "off"
    /\ buckets_set = FALSE
    /\ raw_files = <<>>
    /\ sv_run = 0
    /\ sv_pc = "off"
    /\ cleaned = NoBlob
    /\ sv_written = <<>>
    /\ sv_outcome = <<>>
    /\ sv_result = <<>>
    /\ sv_exit = <<>>
    /\ sv_printed = <<>>
    /\ webhook_url = ""
    /\ al_prices = <<>>
    /\ al_other = <<>>
    /\ al_late = 0
    /\ al_pc = "off"
    /\ al_output = {}
    /\ latest_row = <<>>
    /\ alerts_handed = <<>>
    /\ posts = <<>>
    /\ al_delivery = "none"
    /\ al_state = NoBlob
    /\ al_return = ""
    /\ al_printed = ""
    /\ master_file = [state |-> "absent", rows |-> <<>>]
    /\ master_before = [state |-> "absent", rows |-> <<>>]
    /\ recent_exists = FALSE
    /\ zip_files = <<>>
    /\ bt_pc = "off"
    /\ combined_df = <<>>
    /\ bt_logged = ""
    /\ seen = <<>>

\* analyze.py:28-29 and 62-66: get_source_file raises FileNotFoundError and
\* process_analysis raises it again
LocalSourceMissing ==
    /\ a_pc = "start"
    /\ ~source_exists
    /\ a_error' = "FileNotFoundError"
    /\ a_pc' = "raised"
    /\ UNCHANGED <<source_exists, a_prices, div_by_zero, a_out, a_again>>
    /\ UNCHANGED <<gold_vars, merge_vars, bronze_vars, silver_vars,
                   alert_vars, binance_vars>>

\* analyze.py:62-161: the local run writes analyzed_market_summary.parquet
LocalAnalyze ==
    /\ a_pc = "start"
    /\ source_exists
    /\ a_out' = LocalQuery(Rows(a_prices))
    /\ a_pc' = "local_done"
    /\ UNCHANGED <<source_exists, a_prices, div_by_zero, a_again, a_error>>
    /\ UNCHANGED <<gold_vars, merge_vars, bronze_vars, silver_vars,
                   alert_vars, binance_vars>>

\* main.py:149-199: the cloud run on the rows of the coin
CloudAnalyze ==
    /\ a_pc = "start"
    /\ source_exists
    /\ a_out' = CloudQuery(Rows(a_prices))
    /\ a_pc' = "cloud_done"
    /\ UNCHANGED <<source_exists, a_prices, div_by_zero, a_again, a_error>>
    /\ UNCHANGED <<gold_vars, merge_vars, bronze_vars, silver_vars,
                   alert_vars, binance_vars>>

\* main.py:135-199: a later cloud run that has the saved rows as history
\* and brings no new row
CloudReanalyze ==
    /\ a_pc = "cloud_done"
    /\ a_again' = CloudQuery(common_columns(a_out))
    /\ a_pc' = "cloud_redone"
    /\ UNCHANGED <<source_exists, a_prices, div_by_zero, a_out, a_error>>
    /\ UNCHANGED <<gold_vars, merge_vars, bronze_vars, silver_vars,
                   alert_vars, binance_vars>>

NextAnalysis ==
    \/ LocalSourceMissing
    \/ LocalAnalyze
    \/ CloudAnalyze
    \/ CloudReanalyze

(***************************************************************************)
(* The Silver stage: process_cleaning of the local pipeline, called by     *)
(* run_local_pipeline, and the cloud handler process_data_cleaning.        *)
(***************************************************************************)
MaxPayloadRecords == 2
MaxRuns == 2

\* SQL NULL, outside every domain of values
NULL == -1

Files == 1..2
Runs == 1..MaxRuns

\* the columns of a raw record the query reads, reduced to those that the
\* derived columns depend on and two that they must not depend on
RawRecords ==
    [id : CoinIds, current_price : {2, 3}, total_supply : {10},
     max_supply : {NULL, 20}, last_updated : {1}]

RawSequences(n) == UNION {[1..k -> RawRecords] : k \in 1..n}

\* a raw_prices_*.json file: missing, not parseable, or a list of records
Payload(state, records) == [state |-> state, records |-> records]

Payloads(n) ==
    {Payload("absent", <<>>), Payload("malformed", <<>>)}
        \cup {Payload("healthy", s) : s \in RawSequences(n)}

\* the capture time that ingestion wrote into every record of a file
ingested_timestamp(f) == f

\* the time of a run, later than every capture time
current_timestamp(r) == Cardinality(Files) + r

Mul(a, b) == IF a = NULL \/ b = NULL THEN NULL ELSE a * b

fully_diluted_valuation_max_only(r) == Mul(r.current_price, r.max_supply)

fully_diluted_valuation(r) ==
    IF r.max_supply = NULL
    THEN Mul(r.current_price, r.total_supply)
    ELSE Mul(r.current_price, r.max_supply)

\* one row of the SELECT of clean.py
LocalCanonical(r, f, now) ==
    [coin_id |-> r.id,
     current_price |-> r.current_price,
     fully_diluted_valuation |-> fully_diluted_valuation(r),
     total_supply |-> r.total_supply,
     max_supply |-> r.max_supply,
     source_updated_at |-> r.last_updated,
     ingested_at |-> ingested_timestamp(f),
     processed_at |-> now]

\* one row of the SELECT of the cloud handler, which has no processed_at
\* column and stamps ingested_at with the time of the query
CloudCanonical(r, f, now) ==
    [coin_id |-> r.id,
     current_price |-> r.current_price,
     fully_diluted_valuation |-> fully_diluted_valuation(r),
     total_supply |-> r.total_supply,
     max_supply |-> r.max_supply,
     source_updated_at |-> r.last_updated,
     ingested_at |-> now,
     processed_at |-> NULL]

FilesPresent == {f \in Files : raw_files[f].state # "absent"}

\* read_json_auto over the glob raises when one matched file does not parse
ReadFails == \E f \in FilesPresent : raw_files[f].state = "malformed"

\* SELECT DISTINCT ... FROM read_json_auto(pattern)
query_to_clean(now) ==
    UNION {{LocalCanonical(raw_files[f].records[i], f, now) :
                i \in DOMAIN raw_files[f].records} : f \in FilesPresent}

cloud_query_to_clean(now) ==
    UNION {{CloudCanonical(raw_files[f].records[i], f, now) :
                i \in DOMAIN raw_files[f].records} : f \in FilesPresent}

InitSilver ==
    /\ sv_env \in {"local", "cloud"}
    /\ buckets_set \in BOOLEAN
    /\ sv_env = "local" => buckets_set = FALSE
    /\ raw_files \in [Files -> Payloads(MaxPayloadRecords)]
    /\ Len(raw_files[2].records) <= 1
    /\ sv_run = 1
    /\ sv_pc = "start"
    /\ cleaned = NoBlob
    /\ sv_written = [r \in Runs |-> {}]
    /\ sv_outcome = [r \in Runs |-> "none"]
    /\ sv_result = [r \in Runs |-> ""]
    /\ sv_exit = [r \in Runs |-> ""]
    /\ sv_printed = [r \in Runs |-> ""]
    \* the other components are left out
    /\ gold_blob = NoBlob
    /\ gold_gen = 0
    /\ blob_src = {}
    /\ pc = [i \in Invocations |-> "off"]
    /\ local_new_data = [i \in Invocations |-> {}]
    /\ local_history = [i \in Invocations |-> {}]
    /\ has_history = [i \in Invocations |-> FALSE]
    /\ local_output = [i \in Invocations |-> {}]
    /\ loaded_gen = [i \in Invocations |-> 0]
    /\ loaded_src = [i \in Invocations |-> {}]
    /\ saved_gen = [i \in Invocations |-> 0]
    /\ m_pc = "off"
    /\ m_existing = NoBlob
    /\ m_incoming = {}
    /\ m_first = {}
    /\ m_again = {}
    /\ m_second = {}
    /\ b_pc = "off"
    /\ bucket_set = FALSE
    /\ coin_list = <<>>
    /\ loop_i = 0
    /\ batch_num = 0
    /\ attempt = 0
    /\ batch_data = <<>>
    /\ all_market_data = <<>>
    /\ clock = 0
    /\ capture_time = 0
    /\ log = <<>>
    /\ stored_payload = <<>>
    /\ result = 0
    /\ error_message = ""
    /\ a_pc = "off"
    /\ source_exists = FALSE
    /\ a_prices = <<>>
    /\ div_by_zero = "null"
    /\ a_out = <<>>
    /\ a_again = <<>>
    /\ a_error = ""
    /\ webhook_url = ""
    /\ al_prices = <<>>
    /\ al_other = <<>>
    /\ al_late = 0
    /\ al_pc = "off"
    /\ al_output = {}
    /\ latest_row = <<>>
    /\ alerts_handed = <<>>
    /\ posts = <<>>
    /\ al_delivery = "none"
    /\ al_state = NoBlob
    /\ al_return = ""
    /\ al_printed = ""
    /\ master_file = [state |-> "absent", rows |-> <<>>]
    /\ master_before = [state |-> "absent", rows |-> <<>>]
    /\ recent_exists = FALSE
    /\ zip_files = <<>>
    /\ bt_pc = "off"
    /\ combined_df = <<>>
    /\ bt_logged = ""
    /\ seen = <<>>

SetRun(f, v) == [f EXCEPT ![sv_run] = v]

\* run_pipeline.py:161-163: the Bronze step of the driver ends or raises
DriverIngest ==
    /\ sv_env = "local"
    /\ sv_pc = "start"
    /\ \E raises \in BOOLEAN :
        IF raises
        THEN /\ sv_outcome' = SetRun(sv_outcome, "failed")
             /\ sv_pc' = "caught"
        ELSE /\ sv_pc' = "cleaning"
             /\ UNCHANGED sv_outcome
    /\ UNCHANGED <<sv_env, buckets_set, raw_files, sv_run, cleaned,
                   sv_written, sv_result, sv_exit,
                   sv_printed>>
    /\ UNCHANGED <<gold_vars, merge_vars, bronze_vars, analysis_vars,
                   alert_vars, binance_vars>>

\* clean.py:23-26 and 53-58: no file matches, FileNotFoundError is raised
\* again to the caller before any output is written
LocalCleanNoFiles ==
    /\ sv_env = "local"
    /\ sv_pc = "cleaning"
    /\ FilesPresent = {}
    /\ sv_result' = SetRun(sv_result, "raise FileNotFoundError")
    /\ sv_outcome' = SetRun(sv_outcome, "failed")
    /\ sv_printed' = SetRun(sv_printed, "FileNotFoundError")
    /\ sv_pc' = "caught"
    /\ UNCHANGED <<sv_env, buckets_set, raw_files, sv_run, cleaned,
                   sv_written, sv_exit>>
    /\ UNCHANGED <<gold_vars, merge_vars, bronze_vars, analysis_vars,
                   alert_vars, binance_vars>>

\* clean.py:99-112: the COPY of the query over all the files fails as a
\* whole when one file does not parse, and the error is raised again
LocalCleanReadFails ==
    /\ sv_env = "local"
    /\ sv_pc = "cleaning"
    /\ FilesPresent # {}
    /\ ReadFails
    /\ sv_result' = SetRun(sv_result, "raise Exception")
    /\ sv_outcome' = SetRun(sv_outcome, "failed")
    /\ sv_printed' = SetRun(sv_printed, "Exception")
    /\ sv_pc' = "caught"
    /\ UNCHANGED <<sv_env, buckets_set, raw_files, sv_run, cleaned,
                   sv_written, sv_exit>>
    /\ UNCHANGED <<gold_vars, merge_vars, bronze_vars, analysis_vars,
                   alert_vars, binance_vars>>

\* clean.py:50-108: the query result replaces the cleaned file
LocalClean ==
    /\ sv_env = "local"
    /\ sv_pc = "cleaning"
    /\ FilesPresent # {}
    /\ ~ReadFails
    /\ cleaned' = Blob(query_to_clean(current_timestamp(sv_run)))
    /\ sv_written' = SetRun(sv_written, cleaned'.rows)
    /\ sv_result' = SetRun(sv_result, "return path")
    /\ sv_pc' = "analyzing"
    /\ UNCHANGED <<sv_env, buckets_set, raw_files, sv_run, sv_outcome,
                   sv_exit,
                   sv_printed>>
    /\ UNCHANGED <<gold_vars, merge_vars, bronze_vars, analysis_vars,
                   alert_vars, binance_vars>>

\* run_pipeline.py:169-173: the Gold step of the driver ends or raises
DriverAnalyze ==
    /\ sv_env = "local"
    /\ sv_pc = "analyzing"
    /\ \E raises \in BOOLEAN :
        IF raises
        THEN /\ sv_outcome' = SetRun(sv_outcome, "failed")
             /\ sv_pc' = "caught"
        ELSE /\ sv_outcome' = SetRun(sv_outcome, "ok")
             /\ sv_pc' = "finished"
    /\ UNCHANGED <<sv_env, buckets_set, raw_files, sv_run, cleaned,
                   sv_written, sv_result, sv_exit,
                   sv_printed>>
    /\ UNCHANGED <<gold_vars, merge_vars, bronze_vars, analysis_vars,
                   alert_vars, binance_vars>>

\* run_pipeline.py:175-206: the except clause prints the error, the function
\* returns either way and the process ends with the interpreter's exit
\* code 0
DriverExit ==
    /\ sv_env = "local"
    /\ sv_pc \in {"caught", "finished"}
    /\ sv_exit' = SetRun(sv_exit, "0")
    /\ sv_pc' = "ended"
    /\ UNCHANGED <<sv_env, buckets_set, raw_files, sv_run, cleaned,
                   sv_written, sv_outcome, sv_result,
                   sv_printed>>
    /\ UNCHANGED <<gold_vars, merge_vars, bronze_vars, analysis_vars,
                   alert_vars, binance_vars>>

\* silver/main.py:49-51: a bucket name is not configured
CloudBucketsMissing ==
    /\ sv_env = "cloud"
    /\ sv_pc = "start"
    /\ ~buckets_set
    /\ sv_result' = SetRun(sv_result, "return None")
    /\ sv_outcome' = SetRun(sv_outcome, "failed")
    /\ sv_printed' = SetRun(sv_printed, "Bucket environment variables are missing")
    /\ sv_pc' = "ended"
    /\ UNCHANGED <<sv_env, buckets_set, raw_files, sv_run, cleaned,
                   sv_written, sv_exit>>
    /\ UNCHANGED <<gold_vars, merge_vars, bronze_vars, analysis_vars,
                   alert_vars, binance_vars>>

\* silver/main.py:64-66, 121-126 and 130-132: a download or the upload
\* raises, the except clause prints the error and the handler ends
CloudStorageError ==
    /\ sv_env = "cloud"
    /\ sv_pc = "start"
    /\ buckets_set
    /\ sv_result' = SetRun(sv_result, "return None")
    /\ sv_outcome' = SetRun(sv_outcome, "failed")
    /\ sv_printed' = SetRun(sv_printed, "storage error")
    /\ sv_pc' = "ended"
    /\ UNCHANGED <<sv_env, buckets_set, raw_files, sv_run, cleaned,
                   sv_written, sv_exit>>
    /\ UNCHANGED <<gold_vars, merge_vars, bronze_vars, analysis_vars,
                   alert_vars, binance_vars>>

\* silver/main.py:12-23, 69 and 130-132: validate_ingested_files raises
\* FileNotFoundError, the except clause prints it and the handler ends
CloudCleanNoFiles ==
    /\ sv_env = "cloud"
    /\ sv_pc = "start"
    /\ buckets_set
    /\ FilesPresent = {}
    /\ sv_result' = SetRun(sv_result, "return None")
    /\ sv_outcome' = SetRun(sv_outcome, "failed")
    /\ sv_printed' = SetRun(sv_printed, "FileNotFoundError")
    /\ sv_pc' = "ended"
    /\ UNCHANGED <<sv_env, buckets_set, raw_files, sv_run, cleaned,
                   sv_written, sv_exit>>
    /\ UNCHANGED <<gold_vars, merge_vars, bronze_vars, analysis_vars,
                   alert_vars, binance_vars>>

\* silver/main.py:110-119 and 130-132: the COPY of the query fails on a file
\* that does not parse, the except clause prints it and the handler ends
CloudCleanReadFails ==
    /\ sv_env = "cloud"
    /\ sv_pc = "start"
    /\ buckets_set
    /\ FilesPresent # {}
    /\ ReadFails
    /\ sv_result' = SetRun(sv_result, "return None")
    /\ sv_outcome' = SetRun(sv_outcome, "failed")
    /\ sv_printed' = SetRun(sv_printed, "Exception")
    /\ sv_pc' = "ended"
    /\ UNCHANGED <<sv_env, buckets_set, raw_files, sv_run, cleaned,
                   sv_written, sv_exit>>
    /\ UNCHANGED <<gold_vars, merge_vars, bronze_vars, analysis_vars,
                   alert_vars, binance_vars>>

\* silver/main.py:64-128: the query result is uploaded over the cleaned
\* object and the handler ends without a return value
CloudClean ==
    /\ sv_env = "cloud"
    /\ sv_pc = "start"
    /\ buckets_set
    /\ FilesPresent # {}
    /\ ~ReadFails
    /\ cleaned' = Blob(cloud_query_to_clean(current_timestamp(sv_run)))
    /\ sv_written' = SetRun(sv_written, cleaned'.rows)
    /\ sv_result' = SetRun(sv_result, "return None")
    /\ sv_outcome' = SetRun(sv_outcome, "ok")
    /\ sv_pc' = "ended"
    /\ UNCHANGED <<sv_env, buckets_set, raw_files, sv_run, sv_exit,
                   sv_printed>>
    /\ UNCHANGED <<gold_vars, merge_vars, bronze_vars, analysis_vars,
                   alert_vars, binance_vars>>

\* the stage is run once more over the same raw payloads
NextRun ==
    /\ sv_pc = "ended"
    /\ sv_run < MaxRuns
    /\ sv_run' = sv_run + 1
    /\ sv_pc' = "start"
    /\ UNCHANGED <<sv_env, buckets_set, raw_files, cleaned, sv_written,
                   sv_outcome, sv_result, sv_exit, sv_printed,
                   sv_printed>>
    /\ UNCHANGED <<gold_vars, merge_vars, bronze_vars, analysis_vars,
                   alert_vars, binance_vars>>

NextSilver ==
    \/ DriverIngest
    \/ LocalCleanNoFiles
    \/ LocalCleanReadFails
    \/ LocalClean
    \/ DriverAnalyze
    \/ DriverExit
    \/ CloudBucketsMissing
    \/ CloudStorageError
    \/ CloudCleanNoFiles
    \/ CloudCleanReadFails
    \/ CloudClean
    \/ NextRun

(***************************************************************************)
(* The end of a Gold cloud run: the alert on the latest row, the upload of *)
(* the state and the return value.                                         *)
(***************************************************************************)
\* the price histories of the second coin: none, one that ends in BUY, one
\* that ends in SELL, one that ends in WAIT
OtherSequences == {<<>>, <<100, 50>>, <<100, 200>>, <<100, 100>>}

\* the rows the query computes for a coin, with its symbol, its times moved
\* by shift
SymbolRows(symbol, prices, shift) ==
    LET out == CloudQuery(Rows(prices)) IN
    {[symbol |-> symbol,
      source_updated_at |-> out[i].source_updated_at + shift,
      current_price |-> out[i].current_price,
      sma_7d |-> out[i].sma_7d,
      rsi_14d |-> out[i].rsi_14d,
      signal |-> out[i].signal] : i \in DOMAIN out}

\* fetchone() on an empty table
NoRow ==
    [symbol |-> "", source_updated_at |-> 0, current_price |-> 0,
     sma_7d |-> Whole(0), rsi_14d |-> Whole(0), signal |-> ""]

AnyRows(table) == table

\* ORDER BY source_updated_at DESC LIMIT 1: a row that no row is later than
LatestRows(table) ==
    {r \in table : \A q \in table : q.source_updated_at <= r.source_updated_at}

\* the arguments of send_discord_alert
AlertTuple(r) == <<r.symbol, r.current_price, r.rsi_14d, r.signal>>

InitAlert ==
    /\ webhook_url \in {"", "https://discord.com/api/webhooks"}
    /\ al_prices \in PriceSequences
    /\ al_other \in OtherSequences
    /\ al_late \in {0, 1}
    /\ al_other = <<>> => al_late = 0
    /\ al_pc = "start"
    /\ al_output = {}
    /\ latest_row = NoRow
    /\ alerts_handed = <<>>
    /\ posts = <<>>
    /\ al_delivery = "none"
    /\ al_state = NoBlob
    /\ al_return = ""
    /\ al_printed = ""
    \* the other components are left out
    /\ gold_blob = NoBlob
    /\ gold_gen = 0
    /\ blob_src = {}
    /\ pc = [i \in Invocations |-> "off"]
    /\ local_new_data = [i \in Invocations |-> {}]
    /\ local_history = [i \in Invocations |-> {}]
    /\ has_history = [i \in Invocations |-> FALSE]
    /\ local_output = [i \in Invocations |-> {}]
    /\ loaded_gen = [i \in Invocations |-> 0]
    /\ loaded_src = [i \in Invocations |-> {}]
    /\ saved_gen = [i \in Invocations |-> 0]
    /\ m_pc = "off"
    /\ m_existing = NoBlob
    /\ m_incoming = {}
    /\ m_first = {}
    /\ m_again = {}
    /\ m_second = {}
    /\ b_pc = "off"
    /\ bucket_set = FALSE
    /\ coin_list = <<>>
    /\ loop_i = 0
    /\ batch_num = 0
    /\ attempt = 0
    /\ batch_data = <<>>
    /\ all_market_data = <<>>
    /\ clock = 0
    /\ capture_time = 0
    /\ log = <<>>
    /\ stored_payload = <<>>
    /\ result = 0
    /\ error_message = ""
    /\ a_pc = "off"
    /\ source_exists = FALSE
    /\ a_prices = <<>>
    /\ div_by_zero = "null"
    /\ a_out = <<>>
    /\ a_again = <<>>
    /\ a_error = ""
    /\ sv_env = "off"
    /\ buckets_set = FALSE
    /\ raw_files = <<>>
    /\ sv_run = 0
    /\ sv_pc = "off"
    /\ cleaned = NoBlob
    /\ sv_written = <<>>
    /\ sv_outcome = <<>>
    /\ sv_result = <<>>
    /\ sv_exit = <<>>
    /\ sv_printed = <<>>
    /\ master_file = [state |-> "absent", rows |-> <<>>]
    /\ master_before = [state |-> "absent", rows |-> <<>>]
    /\ recent_exists = FALSE
    /\ zip_files = <<>>
    /\ bt_pc = "off"
    /\ combined_df = <<>>
    /\ bt_logged = ""
    /\ seen = <<>>

\* main.py:149-199: local_output holds the computed rows of every coin
AlertQuery ==
    /\ al_pc = "start"
    /\ al_output' =
           SymbolRows("btc", al_prices, 0) \cup
           SymbolRows("eth", al_other,
                      Len(al_prices) - Len(al_other) + al_late)
    /\ al_pc' = "computed"
    /\ UNCHANGED <<webhook_url, al_prices, al_other, al_late, latest_row,
                   alerts_handed, posts, al_delivery, al_state, al_return,
                   al_printed>>
    /\ UNCHANGED <<gold_vars, merge_vars, bronze_vars, analysis_vars,
                   silver_vars, binance_vars>>

\* main.py:201-205: the latest row is fetched and its signal is WAIT
NoAlert ==
    /\ al_pc = "computed"
    /\ \E r \in LatestRows(al_output) :
        /\ r.signal = "WAIT"
        /\ latest_row' = r
    /\ al_pc' = "alerted"
    /\ UNCHANGED <<webhook_url, al_prices, al_other, al_late, al_output,
                   alerts_handed, posts, al_delivery, al_state, al_return,
                   al_printed>>
    /\ UNCHANGED <<gold_vars, merge_vars, bronze_vars, analysis_vars,
                   silver_vars, binance_vars>>

\* main.py:201-206 and 38-40: send_discord_alert is called and returns at
\* once because no webhook URL is set
AlertSkipped ==
    /\ al_pc = "computed"
    /\ webhook_url = ""
    /\ \E r \in LatestRows(al_output) :
        /\ r.signal # "WAIT"
        /\ latest_row' = r
        /\ alerts_handed' = Append(alerts_handed, AlertTuple(r))
    /\ al_printed' = "No Discord URL set. Skipping alert."
    /\ al_pc' = "alerted"
    /\ UNCHANGED <<webhook_url, al_prices, al_other, al_late, al_output,
                   posts, al_delivery, al_state, al_return>>
    /\ UNCHANGED <<gold_vars, merge_vars, bronze_vars, analysis_vars,
                   silver_vars, binance_vars>>

AlertFailsRaising ==
    /\ al_pc = "computed"
    /\ webhook_url # ""
    /\ \E r \in LatestRows(al_output) :
        /\ r.signal # "WAIT"
        /\ latest_row' = r
        /\ alerts_handed' = Append(alerts_handed, AlertTuple(r))
        /\ posts' = Append(posts, AlertTuple(r))
    /\ al_delivery' = "failed"
    /\ al_printed' = "Critical Error in Gold Layer: post"
    /\ al_return' = "raise"
    /\ al_pc' = "failed"
    /\ UNCHANGED <<webhook_url, al_prices, al_other, al_late, al_output,
                   al_state>>
    /\ UNCHANGED <<gold_vars, merge_vars, bronze_vars, analysis_vars,
                   silver_vars, binance_vars>>

\* main.py:201-206 and 42-61: send_discord_alert posts the payload; the
\* request is answered, or it raises and the except clause prints the error
AlertPosted ==
    /\ al_pc = "computed"
    /\ webhook_url # ""
    /\ \E r \in LatestRows(al_output) :
        /\ r.signal # "WAIT"
        /\ latest_row' = r
        /\ alerts_handed' = Append(alerts_handed, AlertTuple(r))
        /\ posts' = Append(posts, AlertTuple(r))
    /\ \E delivered \in BOOLEAN :
        IF delivered
        THEN /\ al_delivery' = "ok"
             /\ al_printed' = "Alert sent to Discord"
        ELSE /\ al_delivery' = "failed"
             /\ al_printed' = "Failed to send alert"
    /\ al_pc' = "alerted"
    /\ UNCHANGED <<webhook_url, al_prices, al_other, al_late, al_output,
                   al_state, al_return>>
    /\ UNCHANGED <<gold_vars, merge_vars, bronze_vars, analysis_vars,
                   silver_vars, binance_vars>>

\* main.py:208-216: the upload replaces the state object, the run returns
AlertSaveState ==
    /\ al_pc = "alerted"
    /\ al_state' = Blob(al_output)
    /\ al_return' = "Success"
    /\ al_pc' = "done"
    /\ UNCHANGED <<webhook_url, al_prices, al_other, al_late, al_output,
                   latest_row, alerts_handed, posts, al_delivery, al_printed>>
    /\ UNCHANGED <<gold_vars, merge_vars, bronze_vars, analysis_vars,
                   silver_vars, binance_vars>>

\* main.py:208-210 and 218-223: the upload raises, the error is raised again
AlertUploadFails ==
    /\ al_pc = "alerted"
    /\ al_printed' = "Critical Error in Gold Layer: upload"
    /\ al_return' = "raise"
    /\ al_pc' = "failed"
    /\ UNCHANGED <<webhook_url, al_prices, al_other, al_late, al_output,
                   latest_row, alerts_handed, posts, al_delivery, al_state>>
    /\ UNCHANGED <<gold_vars, merge_vars, bronze_vars, analysis_vars,
                   silver_vars, binance_vars>>

NextAlert ==
    \/ AlertQuery
    \/ NoAlert
    \/ AlertSkipped
    \/ AlertPosted
    \/ AlertSaveState
    \/ AlertUploadFails

(***************************************************************************)
(* BinanceTransformer.process_recent on one symbol: the daily files are    *)
(* merged into the master file of the symbol.                              *)
(***************************************************************************)
MaxBinanceTime == 3
MaxDaily == 2

\* the opening minutes of the candles
Times == 1..MaxBinanceTime

\* a file that is not there
NoFile == [state |-> "absent", rows |-> <<>>]

\* a Parquet file with all its rows; a file whose writing has begun and not
\* ended has the state "partial"
File(rows) == [state |-> "complete", rows |-> rows]

\* a row reduced to the key of the merge and to one value column; close
\* tells the file the row came from: 0 the master, k the k-th daily file
Candle(t, close) == [source_updated_at |-> t, close |-> close]

RECURSIVE SortValues(_)
\* sort_values("source_updated_at") on rows with distinct times
SortValues(rows) ==
    IF rows = <<>> THEN <<>>
    ELSE LET i == CHOOSE i \in DOMAIN rows :
                      \A j \in DOMAIN rows :
                          rows[i].source_updated_at <= rows[j].source_updated_at
         IN <<rows[i]>> \o
            SortValues([k \in 1..(Len(rows) - 1) |->
                            IF k < i THEN rows[k] ELSE rows[k + 1]])

\* the rows with the times of T in ascending order
CandlesOf(T, close) ==
    SortValues([k \in 1..Cardinality(T) |->
        Candle(CHOOSE t \in T : Cardinality({u \in T : u < t}) = k - 1,
               close)])

\* the times of a file of candles: the minutes from a first to a last one
Periods == {a..b : a, b \in Times} \ {{}}

\* the master files that process_historical writes: the candles of the first
\* minutes, one row for each time, sorted by time
Masters == {File(CandlesOf(1..b, 0)) : b \in Times}

\* open_time_ms as the file has it: in milliseconds, or in microseconds
RawTime(t, unit) == IF unit = "us" THEN t * 1000 ELSE t

\* a daily zip: one that cannot be read or has the wrong schema, or the
\* times of its candles in the unit of the file
DailyFiles ==
    {[valid |-> FALSE, open_time_ms |-> <<>>]}
        \cup {[valid |-> TRUE,
               open_time_ms |-> [k \in DOMAIN CandlesOf(T, 0) |->
                   RawTime(CandlesOf(T, 0)[k].source_updated_at, unit)]] :
                  T \in Periods, unit \in {"ms", "us"}}

\* len(sample_ts) > 13 on the first time of the file, for times of which
\* the milliseconds have one digit
IsMicroseconds(sample_ts) == sample_ts >= 1000

\* pd.to_datetime(..., unit=...) with the unit found on the first row
to_datetime(file, k) ==
    IF IsMicroseconds(file.open_time_ms[1])
    THEN file.open_time_ms[k] \div 1000
    ELSE file.open_time_ms[k]

\* _transform_dataframe on the k-th daily file
transform_dataframe(k) ==
    [i \in DOMAIN zip_files[k].open_time_ms |->
        Candle(to_datetime(zip_files[k], i), k)]

RECURSIVE Concat(_, _)
\* pd.concat of the frames f[1] .. f[n]
Concat(f, n) == IF n = 0 THEN <<>> ELSE Concat(f, n - 1) \o f[n]

\* the frames of the daily files that could be read, in the order of the
\* files
new_dfs ==
    LET valid == {k \in DOMAIN zip_files : zip_files[k].valid}
        nth(n) == CHOOSE k \in valid : Cardinality({j \in valid : j < k}) = n - 1
    IN [n \in 1..Cardinality(valid) |-> transform_dataframe(nth(n))]

SelectSeq2(rows, keep(_)) ==
    LET F[i \in 0..Len(rows)] ==
            IF i = 0 THEN <<>>
            ELSE IF keep(i) THEN Append(F[i - 1], rows[i]) ELSE F[i - 1]
    IN F[Len(rows)]

drop_duplicates_keep_first(rows) ==
    LET keep(i) == \A j \in 1..(i - 1) :
                       rows[j].source_updated_at # rows[i].source_updated_at
    IN SelectSeq2(rows, keep)

\* drop_duplicates(subset=["source_updated_at"], keep="last")
drop_duplicates(rows) ==
    LET keep(i) == \A j \in (i + 1)..Len(rows) :
                       rows[j].source_updated_at # rows[i].source_updated_at
    IN SelectSeq2(rows, keep)

\* binance_transformer.py:215-233: history and daily rows are concatenated,
\* deduplicated and sorted
Merged(master_df) ==
    SortValues(drop_duplicates(master_df \o Concat(new_dfs, Len(new_dfs))))

InitBinance ==
    /\ master_file \in {NoFile} \cup Masters
    /\ master_before = master_file
    /\ recent_exists \in BOOLEAN
    /\ zip_files \in UNION {[1..n -> DailyFiles] : n \in 0..MaxDaily}
    /\ ~recent_exists => zip_files = <<>>
    /\ bt_pc = "start"
    /\ combined_df = <<>>
    /\ bt_logged = ""
    /\ seen = <<>>
    \* the other components are left out
    /\ gold_blob = NoBlob
    /\ gold_gen = 0
    /\ blob_src = {}
    /\ pc = [i \in Invocations |-> "off"]
    /\ local_new_data = [i \in Invocations |-> {}]
    /\ local_history = [i \in Invocations |-> {}]
    /\ has_history = [i \in Invocations |-> FALSE]
    /\ local_output = [i \in Invocations |-> {}]
    /\ loaded_gen = [i \in Invocations |-> 0]
    /\ loaded_src = [i \in Invocations |-> {}]
    /\ saved_gen = [i \in Invocations |-> 0]
    /\ m_pc = "off"
    /\ m_existing = NoBlob
    /\ m_incoming = {}
    /\ m_first = {}
    /\ m_again = {}
    /\ m_second = {}
    /\ b_pc = "off"
    /\ bucket_set = FALSE
    /\ coin_list = <<>>
    /\ loop_i = 0
    /\ batch_num = 0
    /\ attempt = 0
    /\ batch_data = <<>>
    /\ all_market_data = <<>>
    /\ clock = 0
    /\ capture_time = 0
    /\ log = <<>>
    /\ stored_payload = <<>>
    /\ result = 0
    /\ error_message = ""
    /\ a_pc = "off"
    /\ source_exists = FALSE
    /\ a_prices = <<>>
    /\ div_by_zero = "null"
    /\ a_out = <<>>
    /\ a_again = <<>>
    /\ a_error = ""
    /\ sv_env = "off"
    /\ buckets_set = FALSE
    /\ raw_files = <<>>
    /\ sv_run = 0
    /\ sv_pc = "off"
    /\ cleaned = NoBlob
    /\ sv_written = <<>>
    /\ sv_outcome = <<>>
    /\ sv_result = <<>>
    /\ sv_exit = <<>>
    /\ sv_printed = <<>>
    /\ webhook_url = ""
    /\ al_prices = <<>>
    /\ al_other = <<>>
    /\ al_late = 0
    /\ al_pc = "off"
    /\ al_output = {}
    /\ latest_row = <<>>
    /\ alerts_handed = <<>>
    /\ posts = <<>>
    /\ al_delivery = "none"
    /\ al_state = NoBlob
    /\ al_return = ""
    /\ al_printed = ""

\* binance_transformer.py:180-182: there is no master file for the symbol
SkipNoMaster ==
    /\ bt_pc = "start"
    /\ master_file.state = "absent"
    /\ bt_logged' = "Skipping: No Historical Master found to merge with."
    /\ bt_pc' = "skipped"
    /\ UNCHANGED <<master_file, master_before, recent_exists, zip_files,
                   combined_df, seen>>
    /\ UNCHANGED <<gold_vars, merge_vars, bronze_vars, analysis_vars,
                   silver_vars, alert_vars>>

\* binance_transformer.py:184-191: there is no directory of daily files, or
\* no zip file in it
SkipNoDaily ==
    /\ bt_pc = "start"
    /\ master_file.state # "absent"
    /\ ~recent_exists \/ zip_files = <<>>
    /\ bt_pc' = "done"
    /\ UNCHANGED <<master_file, master_before, recent_exists, zip_files,
                   combined_df, bt_logged, seen>>
    /\ UNCHANGED <<gold_vars, merge_vars, bronze_vars, analysis_vars,
                   silver_vars, alert_vars>>

\* binance_transformer.py:196-212 and 241-242: no daily file could be read
NoValidRows ==
    /\ bt_pc = "start"
    /\ master_file.state # "absent"
    /\ zip_files # <<>>
    /\ new_dfs = <<>>
    /\ bt_logged' = "No valid rows extracted from daily files"
    /\ bt_pc' = "done"
    /\ UNCHANGED <<master_file, master_before, recent_exists, zip_files,
                   combined_df, seen>>
    /\ UNCHANGED <<gold_vars, merge_vars, bronze_vars, analysis_vars,
                   silver_vars, alert_vars>>

\* binance_transformer.py:213-233: the master file is read and merged with
\* the daily rows
Merge ==
    /\ bt_pc = "start"
    /\ master_file.state = "complete"
    /\ new_dfs # <<>>
    /\ combined_df' = Merged(master_file.rows)
    /\ bt_pc' = "merged"
    /\ UNCHANGED <<master_file, master_before, recent_exists, zip_files,
                   bt_logged, seen>>
    /\ UNCHANGED <<gold_vars, merge_vars, bronze_vars, analysis_vars,
                   silver_vars, alert_vars>>

\* binance_transformer.py:218 and 239-240: reading the master file raises, the
\* error is logged
MergeFails ==
    /\ bt_pc = "start"
    /\ master_file.state = "complete"
    /\ new_dfs # <<>>
    /\ bt_logged' = "Failed to merge"
    /\ bt_pc' = "failed"
    /\ UNCHANGED <<master_file, master_before, recent_exists, zip_files,
                   combined_df, seen>>
    /\ UNCHANGED <<gold_vars, merge_vars, bronze_vars, analysis_vars,
                   silver_vars, alert_vars>>

\* binance_transformer.py:236: to_parquet opens the master file itself for
\* writing, which empties it
BeginWrite ==
    /\ bt_pc = "merged"
    /\ master_file' = [state |-> "partial", rows |-> <<>>]
    /\ bt_pc' = "writing"
    /\ UNCHANGED <<master_before, recent_exists, zip_files, combined_df,
                   bt_logged, seen>>
    /\ UNCHANGED <<gold_vars, merge_vars, bronze_vars, analysis_vars,
                   silver_vars, alert_vars>>

\* binance_transformer.py:236-238: the rows and the footer are written
EndWrite ==
    /\ bt_pc = "writing"
    /\ master_file' = File(combined_df)
    /\ bt_logged' = "Merged & Updated"
    /\ bt_pc' = "done"
    /\ UNCHANGED <<master_before, recent_exists, zip_files, combined_df,
                   seen>>
    /\ UNCHANGED <<gold_vars, merge_vars, bronze_vars, analysis_vars,
                   silver_vars, alert_vars>>

\* binance_transformer.py:236 and 239-240: the write raises part way, the
\* error is logged
WriteFails ==
    /\ bt_pc = "writing"
    /\ bt_logged' = "Failed to merge"
    /\ bt_pc' = "failed"
    /\ UNCHANGED <<master_file, master_before, recent_exists, zip_files,
                   combined_df, seen>>
    /\ UNCHANGED <<gold_vars, merge_vars, bronze_vars, analysis_vars,
                   silver_vars, alert_vars>>

\* another process reads the master file
ReadMaster ==
    /\ bt_pc # "off"
    /\ seen = <<>>
    /\ master_file.state # "absent"
    /\ seen' = Append(seen, master_file)
    /\ UNCHANGED <<master_file, master_before, recent_exists, zip_files,
                   bt_pc, combined_df, bt_logged>>
    /\ UNCHANGED <<gold_vars, merge_vars, bronze_vars, analysis_vars,
                   silver_vars, alert_vars>>

NextBinance ==
    \/ SkipNoMaster
    \/ SkipNoDaily
    \/ NoValidRows
    \/ Merge
    \/ MergeFails
    \/ BeginWrite
    \/ EndWrite
    \/ WriteFails
    \/ ReadMaster

(***************************************************************************)
(* Specifications.                                                         *)
(***************************************************************************)
\* two invocations of the Gold function on a cold-started state object
SpecGold == InitGold /\ [][NextGold]_vars

\* the merge applied to every stored history and cleaned snapshot
SpecMerge == InitMerge /\ [][NextMerge]_vars

\* one fetch cycle of the Bronze cloud function
SpecBronze == InitBronze /\ [][NextBronze]_vars

\* one fetch cycle of the local ingestion in fail-fast mode
SpecLocalBronze == InitLocalBronze /\ [][NextLocalBronze]_vars

\* one run of the analytical query on the rows of one coin
SpecAnalysis == InitAnalysis /\ [][NextAnalysis]_vars

\* two runs of the Silver stage over the same raw payloads
SpecSilver == InitSilver /\ [][NextSilver]_vars

\* the end of one Gold cloud run on the histories of two coins
SpecAlert == InitAlert /\ [][NextAlert]_vars

\* one run of process_recent on a symbol beside a reader of its master file
SpecBinance == InitBinance /\ [][NextBinance]_vars

(***************************************************************************)
(* Properties of the Gold merge.                                           *)
(***************************************************************************)
\* the invocation has written its local_output
Computed(i) == pc[i] \in {"computed", "done"}

\* the rows the invocation's query read
Combined(i) ==
    raw_combined(has_history[i], local_history[i], local_new_data[i])

\* the rows the invocation's query read and did not write
Discarded(i) == Combined(i) \ local_output[i]

SameKey(r, s) ==
    r.coin_id = s.coin_id /\ r.source_updated_at = s.source_updated_at

\* C1: after any sequence of analytics runs every coin has at most RETENTION
\* (500 in the code) rows in the persisted state, and every row a run kept is
\* at least as recent (source_updated_at) as every row of the same coin that
\* the run discarded.
C1_RetentionBound ==
    /\ \A c \in CoinIds :
           Cardinality(RowsOfCoin(gold_blob.rows, c)) <= RETENTION
    /\ \A i \in Invocations :
           Computed(i) =>
               \A k \in local_output[i] : \A d \in Discarded(i) :
                   k.coin_id = d.coin_id =>
                       k.source_updated_at >= d.source_updated_at

\* a run that saved its output after discarding an older row of a coin
C1_Witness ==
    \E i \in Invocations :
        /\ pc[i] = "done"
        /\ gold_blob = Blob(local_output[i])
        /\ \E k \in local_output[i] : \E d \in Discarded(i) :
               /\ k.coin_id = d.coin_id
               /\ k.source_updated_at > d.source_updated_at

\* C2: the persisted state holds at most one row per (coin_id,
\* source_updated_at); when history and snapshot both carry a row with the
\* same key, at most one row with that key is written and it is the most
\* recently processed one.
C2_OneRecordPerKey ==
    /\ \A r, s \in gold_blob.rows : SameKey(r, s) => r = s
    /\ \A i \in Invocations :
           (Computed(i) /\ has_history[i]) =>
               \A h \in local_history[i] : \A n \in local_new_data[i] :
                   SameKey(h, n) =>
                       LET survivors == {r \in local_output[i] : SameKey(r, h)}
                       IN  /\ Cardinality(survivors) <= 1
                           /\ \A r \in survivors :
                                  /\ r.processed_at >= h.processed_at
                                  /\ r.processed_at >= n.processed_at

\* C3: merging the result of a merge with nothing, or with the same snapshot
\* again, gives the same rows: merge(merge(H, N), X) = merge(H, N) for X = {}
\* and for X = N.
C3_Idempotent == (m_pc = "reapplied") => (m_second = m_first)

\* the union the first merge read
MergeUnion ==
    raw_combined(HistoryExists(m_existing), m_existing.rows, m_incoming)

\* fewer than RETENTION rows of the coin are more recent than r
AmongMostRecent(r, rows) ==
    Cardinality({s \in RowsOfCoin(rows, r.coin_id) :
                    s.source_updated_at > r.source_updated_at}) < RETENTION

\* C4: the rows a run saves are rows of the history or of the snapshot, and
\* every row of that union that is among the RETENTION (500) most recent of
\* its coin is saved.
C4_ExactUnion ==
    (m_pc \in {"merged", "reapplied"}) =>
        /\ m_first \subseteq MergeUnion
        /\ \A r \in MergeUnion : AmongMostRecent(r, MergeUnion) => r \in m_first

\* both invocations have uploaded, a before b
SavedBefore(a, b) ==
    /\ pc[a] = "done"
    /\ pc[b] = "done"
    /\ saved_gen[a] < saved_gen[b]

\* b read the state object before a uploaded
Raced(a, b) == SavedBefore(a, b) /\ loaded_gen[b] < saved_gen[a]

\* b read the state object a had uploaded
Sequential(a, b) == SavedBefore(a, b) /\ loaded_gen[b] = saved_gen[a]

\* the new rows of a that b neither read nor brought itself
LostRows(a, b) == local_new_data[a] \ Combined(b)

\* the coin of r is at the retention bound with no row older than r
PrunedOut(r, rows) ==
    /\ Cardinality(RowsOfCoin(rows, r.coin_id)) = RETENTION
    /\ \A s \in RowsOfCoin(rows, r.coin_id) :
           s.source_updated_at >= r.source_updated_at

\* C5 as stated: when two invocations race (the second to save read the
\* state before the first saved) the final state lacks the first one's new
\* rows; when they run one after the other the final state contains the new
\* rows of both.
C5_AsClaimed ==
    \A a, b \in Invocations :
        /\ Raced(a, b) => \A r \in LostRows(a, b) : r \notin gold_blob.rows
        /\ Sequential(a, b) =>
               \A r \in local_new_data[a] \cup local_new_data[b] :
                   r \in gold_blob.rows

\* C5 amended: as C5, but after sequential runs a new row may be missing if
\* retention pruning discarded it (its coin holds RETENTION rows, none older).
C5_LostUpdate ==
    \A a, b \in Invocations :
        /\ Raced(a, b) => \A r \in LostRows(a, b) : r \notin gold_blob.rows
        /\ Sequential(a, b) =>
               \A r \in local_new_data[a] \cup local_new_data[b] :
                   r \in gold_blob.rows \/ PrunedOut(r, gold_blob.rows)

\* both invocations read the state before either saved, and the final state
\* lacks a new row of the one that saved first
C5_Witness ==
    \E a, b \in Invocations :
        /\ Raced(a, b)
        /\ loaded_gen[a] = loaded_gen[b]
        /\ LostRows(a, b) # {}
        /\ \A r \in LostRows(a, b) : r \notin gold_blob.rows

(***************************************************************************)
(* Properties of the Bronze fetch cycle.                                   *)
(***************************************************************************)
\* positions of the provider requests in the log
AllRequests == {k \in DOMAIN log : log[k].type = "request"}

\* positions of the requests made for batch b
RequestsOf(b) == {k \in AllRequests : log[k].batch = b}

\* the requests made for batch b up to position k
RequestsUpTo(b, k) == {j \in RequestsOf(b) : j <= k}

\* the requests made after position k
LaterRequests(k) == {j \in AllRequests : j > k}

\* the first request made after position k
NextRequest(k) ==
    CHOOSE j \in LaterRequests(k) : \A l \in LaterRequests(k) : j <= l

\* positions of the responses with the status for batch b
ResponsesOf(b, status) ==
    {k \in DOMAIN log : /\ log[k].type = "response"
                        /\ log[k].batch = b
                        /\ log[k].code = status}

\* positions of the backoff waits of batch b
BackoffsOf(b) ==
    {k \in DOMAIN log : log[k].type = "backoff" /\ log[k].batch = b}

\* batch b was answered 200
Succeeded(b) == ResponsesOf(b, 200) # {}

\* the batch being fetched has been given up without data
GivenUp(b) ==
    /\ ~Succeeded(b)
    /\ b = batch_num => b_pc # "fetching"
    /\ (b = batch_num /\ b_pc = "batch_returned") => batch_data = <<>>

\* the bodies of the 200 responses among the first n log entries, in order
RECURSIVE SucceededRecords(_)
SucceededRecords(n) ==
    IF n = 0 THEN <<>>
    ELSE SucceededRecords(n - 1) \o
             (IF log[n].type = "response" /\ log[n].code = 200
              THEN log[n].body ELSE <<>>)

\* every batch of the cycle has been requested
AllBatchesRequested == \A b \in 1..total_batches : RequestsOf(b) # {}

\* C6: in the cloud function a failed batch (retries exhausted, other
\* status, transport error) adds no record, the later batches are all still
\* requested, batches are requested in order, and the stored payload is the
\* in-order concatenation of the records of the batches answered 200.
C6_GracefulDegradation ==
    /\ \A k, l \in DOMAIN log : k <= l => log[k].batch <= log[l].batch
    /\ (b_pc = "batch_returned" /\ ~Succeeded(batch_num)) => batch_data = <<>>
    /\ b_pc \in {"fetching", "store"} =>
           all_market_data = SucceededRecords(Len(log))
    /\ (b_pc = "store" \/ (b_pc = "done" /\ bucket_set)) => AllBatchesRequested
    /\ stored_payload # <<>> =>
           stored_payload = InjectLineage(SucceededRecords(Len(log)))
    /\ (b_pc = "done" /\ result = 200 /\ SucceededRecords(Len(log)) # <<>>) =>
           stored_payload # <<>>

\* the first batch used up its retries, the second met a transport error,
\* the third was answered with records and the payload was stored
C6_Witness ==
    /\ b_pc = "done"
    /\ stored_payload # <<>>
    /\ total_batches = 3
    /\ Cardinality(ResponsesOf(1, 429)) = 3
    /\ \E k \in DOMAIN log : log[k].type = "exception" /\ log[k].batch = 2
    /\ Succeeded(3)

\* C7: in the local fail-fast ingestion a rate limit that the retries do not
\* recover raises an exception whose message is "Rate limit hit (429)"; the
\* cycle stops there: no later batch is requested, nothing more happens and
\* no raw payload file is written.
C7_FailFast ==
    /\ \A b \in 1..total_batches :
           Cardinality(ResponsesOf(b, 429)) >= 3 =>
               /\ b_pc = "raised"
               /\ error_message = RateLimitMessage
    /\ (b_pc = "raised" /\ error_message = RateLimitMessage) =>
           /\ log[Len(log)].type = "response"
           /\ log[Len(log)].code = 429
           /\ log[Len(log)].batch = batch_num
           /\ \A k \in AllRequests : log[k].batch <= batch_num
           /\ stored_payload = <<>>
           /\ ~ENABLED NextLocalBronze

\* the second batch of three raised after the first had brought records
C7_Witness ==
    /\ b_pc = "raised"
    /\ error_message = RateLimitMessage
    /\ batch_num = 2
    /\ total_batches = 3
    /\ all_market_data # <<>>

\* C8: after a 429 the next request is for the same batch; a batch gets at
\* most 3 requests and is given up after the third 429; a cycle of m batches
\* makes at most 3m requests and never stops before it has returned.
C8_BoundedRetry ==
    /\ \A k \in DOMAIN log :
           (/\ log[k].type = "response"
            /\ log[k].code = 429
            /\ Cardinality(RequestsUpTo(log[k].batch, k)) < 3) =>
               IF LaterRequests(k) # {}
               THEN log[NextRequest(k)].batch = log[k].batch
               ELSE b_pc = "fetching" /\ batch_num = log[k].batch
    /\ \A b \in 1..total_batches :
           /\ Cardinality(RequestsOf(b)) <= 3
           /\ Cardinality(ResponsesOf(b, 429)) = 3 => GivenUp(b)
    /\ Cardinality(AllRequests) <= 3 * total_batches
    /\ b_pc # "done" => ENABLED NextBronze

\* one batch was answered 200 on the retry after a 429, another was given up
\* after three requests
C8_Witness ==
    /\ b_pc = "done"
    /\ \E b \in 1..total_batches :
           /\ ResponsesOf(b, 429) # {}
           /\ Succeeded(b)
    /\ \E b \in 1..total_batches :
           /\ Cardinality(RequestsOf(b)) = 3
           /\ Cardinality(ResponsesOf(b, 429)) = 3

\* positions of the transport errors
NetworkErrors == {k \in DOMAIN log : log[k].type = "exception"}

OtherResponses ==
    {k \in DOMAIN log : /\ log[k].type = "response"
                        /\ log[k].code \notin {200, 429}}

\* C10 as stated: a batch answered with another status got exactly one
\* request and no backoff wait.
C10_AsClaimed ==
    \A k \in OtherResponses :
        /\ Cardinality(RequestsOf(log[k].batch)) = 1
        /\ BackoffsOf(log[k].batch) = {}

\* C10 amended: another status gives the batch up at once: no request and no
\* backoff wait for the batch follows it; the batch got one request more than
\* it got 429 responses, so exactly one when the status answers the first.
C10_OtherStatusFailsBatch ==
    \A k \in OtherResponses :
        /\ \A j \in RequestsOf(log[k].batch) : j < k
        /\ \A j \in BackoffsOf(log[k].batch) : j < k
        /\ GivenUp(log[k].batch)
        /\ Cardinality(RequestsOf(log[k].batch)) =
               1 + Cardinality(ResponsesOf(log[k].batch, 429))

\* the first request of a batch was answered with another status and the
\* cycle went on to the next batch
C10_Witness ==
    /\ b_pc = "done"
    /\ \E k \in OtherResponses :
           /\ Cardinality(RequestsOf(log[k].batch)) = 1
           /\ BackoffsOf(log[k].batch) = {}
           /\ RequestsOf(log[k].batch + 1) # {}

\* positions of the inter-batch delays taken after batch b
DelaysAfter(b) ==
    {k \in DOMAIN log : log[k].type = "inter_batch" /\ log[k].batch = b}

\* positions of every sleep of the cycle, backoff or inter-batch
AllSleeps == {k \in DOMAIN log : log[k].type \in {"backoff", "inter_batch"}}

\* no request of the cycle was answered 429
NoRateLimit == \A b \in 1..total_batches : ResponsesOf(b, 429) = {}

\* the batch loop is over
LoopOver == b_pc = "store" \/ (b_pc = "done" /\ bucket_set)

\* C11: one inter-batch delay follows each of the first m-1 batches, after
\* the batch's requests and before the next batch's, and none follows the
\* last batch; when no request was answered 429 the cycle sleeps exactly
\* m-1 times and every batch is requested once.
C11_InterBatchDelay ==
    /\ \A k \in DOMAIN log :
           log[k].type = "inter_batch" =>
               /\ log[k].batch < total_batches
               /\ \A j \in RequestsOf(log[k].batch) : j < k
               /\ \A j \in RequestsOf(log[k].batch + 1) : j > k
    /\ \A b \in 1..total_batches : Cardinality(DelaysAfter(b)) <= 1
    /\ \A b \in 1..total_batches :
           (b < batch_num \/ (LoopOver /\ b < total_batches)) =>
               Cardinality(DelaysAfter(b)) = 1
    /\ (LoopOver /\ NoRateLimit) =>
           /\ Cardinality(AllSleeps) = total_batches - 1
           /\ \A b \in 1..total_batches : Cardinality(RequestsOf(b)) = 1

\* a cycle of three batches without a 429 that slept twice
C11_Witness ==
    /\ b_pc = "done"
    /\ total_batches = 3
    /\ NoRateLimit
    /\ Cardinality(AllSleeps) = 2
    /\ DelaysAfter(3) = {}

\* the ids asked for by the first request of batch b
IdsRequested(b) ==
    log[CHOOSE k \in RequestsOf(b) : \A j \in RequestsOf(b) : k <= j].body

\* the ids asked for by batches 1..b, one after the other
RECURSIVE ConcatBatches(_)
ConcatBatches(b) ==
    IF b = 0 THEN <<>> ELSE ConcatBatches(b - 1) \o IdsRequested(b)

\* the b-th slice of B ids of the list
Slice(list, B, b) ==
    SubSeq(list, (b - 1) * B + 1, Min(b * B, Len(list)))

\* C12: for n ids and batch size B exactly ceil(n/B) batches are requested;
\* every request of batch b asks for the b-th contiguous slice of the list,
\* every batch but the last has B ids, and the batches put together are the
\* list itself; 14 ids by 50 make 1 batch, 120 ids by 50 make 50/50/20.
C12_Batching ==
    /\ \A k \in AllRequests :
           /\ log[k].batch \in 1..ceil_div(Len(coin_list), BATCH_SIZE)
           /\ log[k].body = Slice(coin_list, BATCH_SIZE, log[k].batch)
           /\ Len(log[k].body) >= 1
           /\ log[k].batch < ceil_div(Len(coin_list), BATCH_SIZE) =>
                  Len(log[k].body) = BATCH_SIZE
    /\ LoopOver =>
           /\ {log[k].batch : k \in AllRequests} =
                  1..ceil_div(Len(coin_list), BATCH_SIZE)
           /\ ConcatBatches(ceil_div(Len(coin_list), BATCH_SIZE)) = coin_list
    /\ ceil_div(14, 50) = 1
    /\ ceil_div(120, 50) = 3
    /\ Len(Slice([k \in 1..120 |-> k], 50, 1)) = 50
    /\ Len(Slice([k \in 1..120 |-> k], 50, 2)) = 50
    /\ Len(Slice([k \in 1..120 |-> k], 50, 3)) = 20

\* five ids were fetched as batches of 2, 2 and 1 ids, one of them retried
C12_Witness ==
    /\ LoopOver
    /\ Len(coin_list) = 2 * BATCH_SIZE + 1
    /\ Len(IdsRequested(1)) = BATCH_SIZE
    /\ Len(IdsRequested(3)) = 1
    /\ \E b \in 1..3 : Cardinality(RequestsOf(b)) > 1

\* C13: every record of the stored payload carries the same
\* ingested_timestamp, the capture time taken once before the first request,
\* whatever its batch and however long the retries and delays took.
C13_SharedCaptureTime ==
    /\ \A k \in DOMAIN stored_payload :
           stored_payload[k].ingested_timestamp = capture_time
    /\ \A k, l \in DOMAIN stored_payload :
           stored_payload[k].ingested_timestamp =
               stored_payload[l].ingested_timestamp
    /\ AllRequests # {} => capture_time < clock
    /\ b_pc = "done" =>
           \A k \in DOMAIN all_market_data :
               all_market_data[k].ingested_timestamp = capture_time

\* the payload holds records of the first and of the third batch, and the
\* cycle waited on a 429 in between
C13_Witness ==
    /\ b_pc = "done"
    /\ total_batches = 3
    /\ \E k, l \in DOMAIN stored_payload :
           /\ stored_payload[k].id = coin_list[1]
           /\ stored_payload[l].id = coin_list[Len(coin_list)]
    /\ \E b \in 1..3 : BackoffsOf(b) # {}

(***************************************************************************)
(* Properties of the analytical query.                                     *)
(***************************************************************************)
\* a run has written its analyzed rows
Analyzed == a_pc \in {"local_done", "cloud_done", "cloud_redone"}

NoLossInFrame(prices, i) ==
    \A j \in FrameStart(i, RSI_PERIOD)..i :
        j > 1 => prices[j] >= prices[j - 1]

\* C15: the rsi_14d of every analyzed row lies in [0, 100], and it is 100
\* whenever the row's RSI frame holds no loss, so for the first row of the
\* coin and for every row of an all-equal price sequence.
C15_RsiRange ==
    Analyzed =>
        \A k \in DOMAIN a_out :
            LET r == a_out[k]
            IN  /\ ~RatLess(r.rsi_14d, Whole(0))
                /\ ~RatLess(Whole(100), r.rsi_14d)
                /\ NoLossInFrame(a_prices, r.source_updated_at) =>
                       r.rsi_14d = Whole(100)
                /\ r.source_updated_at = 1 => r.rsi_14d = Whole(100)
                /\ (\A i, j \in DOMAIN a_prices : a_prices[i] = a_prices[j]) =>
                       r.rsi_14d = Whole(100)

\* a local run wrote a later row with RSI 100, a row with RSI 0 and a row
\* with an RSI strictly between them
C15_Witness ==
    /\ a_pc = "local_done"
    /\ \E k \in DOMAIN a_out : k > 1 /\ a_out[k].rsi_14d = Whole(100)
    /\ \E k \in DOMAIN a_out : a_out[k].rsi_14d = Whole(0)
    /\ \E k \in DOMAIN a_out :
           /\ RatLess(Whole(0), a_out[k].rsi_14d)
           /\ RatLess(a_out[k].rsi_14d, Whole(100))

StrictlyIncreasing(prices) ==
    \A i \in 1..(Len(prices) - 1) : prices[i] < prices[i + 1]

C18_IndicatorsOfPrunedHistory ==
    /\ a_pc \in {"cloud_done", "cloud_redone"} =>
           a_out = final_calculations(common_columns(a_out))
    /\ a_pc = "cloud_redone" => a_again = a_out

\* C19: with no cleaned file and no history the local process_analysis is a
\* no-op: it does not raise and it writes no state file.
C19_NoOpWithoutInput ==
    ~source_exists =>
        /\ a_pc # "raised"
        /\ a_error = ""
        /\ a_out = <<>>

(***************************************************************************)
(* Properties of a failed Gold run.                                        *)
(***************************************************************************)
\* the invocation found a state object that it could not download
HistoryUnreadable(i) ==
    pc[i] = "failed" /\ ~has_history[i] /\ loaded_gen[i] > 0

\* C20: a run that raises leaves the state object as it was: it has uploaded
\* nothing, the state object is still what the last successful run uploaded
\* (or still missing), in particular when the existing history could not be
\* downloaded or read; and no run that found a state object goes on without
\* it to save a state built from the new snapshot alone.
C20_StateKeptOnError ==
    /\ \A i \in Invocations :
           pc[i] = "failed" =>
               /\ saved_gen[i] = 0
               /\ gold_gen = Cardinality({j \in Invocations : pc[j] = "done"})
               /\ IF gold_gen = 0
                  THEN gold_blob = NoBlob
                  ELSE \E j \in Invocations \ {i} :
                           /\ saved_gen[j] = gold_gen
                           /\ gold_blob = Blob(local_output[j])
               /\ (has_history[i] /\ loaded_gen[i] = gold_gen) =>
                      gold_blob = Blob(local_history[i])
    /\ \A i \in Invocations :
           (pc[i] \in {"loaded", "computed", "done"} /\ loaded_gen[i] > 0) =>
               has_history[i]

\* a run could not download the state object the other run had saved, and
\* the state object still holds what that run saved
C20_Witness ==
    \E i, j \in Invocations :
        /\ HistoryUnreadable(i)
        /\ local_new_data[i] # {}
        /\ saved_gen[j] = loaded_gen[i]
        /\ gold_gen = saved_gen[j]
        /\ gold_blob = Blob(local_output[j])
        /\ gold_blob.rows # {}

\* the backoff waits of batch b among the first k log entries
BackoffsUpTo(b, k) == {j \in BackoffsOf(b) : j <= k}

\* C29: in fetch_market_data_batch a backoff wait happens only between two
\* attempts: it is at once followed by one more request for the same batch;
\* the wait before the k-th retry is 5 * 2^(k-1) seconds; and there is no
\* wait after the answer to the last permitted attempt.
C29_BackoffBetweenAttempts ==
    \A i \in DOMAIN log :
        log[i].type = "backoff" =>
            /\ IF i < Len(log)
               THEN /\ log[i + 1].type = "request"
                    /\ log[i + 1].batch = log[i].batch
               ELSE b_pc = "fetching" /\ batch_num = log[i].batch
            /\ log[i].code =
                   5 * 2 ^ (Cardinality(BackoffsUpTo(log[i].batch, i)) - 1)
            /\ Cardinality(RequestsUpTo(log[i].batch, i)) < max_retries

(***************************************************************************)
(* Properties of the Silver stage and of the local driver.                 *)
(***************************************************************************)
\* the run has ended and its caller has its result
Ended(r) ==
    IF sv_env = "local"
    THEN sv_exit[r] # ""
    ELSE sv_result[r] # ""

\* what the caller of the stage can observe of the run: the exit code of
\* the driver process, or what the handler returned or raised
Reported(r) == IF sv_env = "local" THEN sv_exit[r] ELSE sv_result[r]

\* C21: a run of a stage that ended in an unrecoverable failure reports a
\* result (the exit code of the driver, or the return or raise of the
\* handler) that differs from the result of a run that succeeded.
C21_FailureReported ==
    \A r1, r2 \in Runs :
        (/\ Ended(r1) /\ sv_outcome[r1] = "failed"
         /\ Ended(r2) /\ sv_outcome[r2] = "ok") =>
            Reported(r1) # Reported(r2)

\* the run went through the Normalizer, which saw the raw files
Normalized(r) ==
    /\ sv_result[r] # ""
    /\ sv_env = "cloud" => buckets_set /\ sv_printed[r] # "storage error"

\* a canonical record without its processed_at
WithoutProcessedAt(row) ==
    [coin_id |-> row.coin_id,
     current_price |-> row.current_price,
     fully_diluted_valuation |-> row.fully_diluted_valuation,
     total_supply |-> row.total_supply,
     max_supply |-> row.max_supply,
     source_updated_at |-> row.source_updated_at,
     ingested_at |-> row.ingested_at]

\* C25: two runs of the Normalizer over the same raw payloads write the same
\* canonical records on every field other than processed_at, ingested_at
\* included; raw rows equal in every field give one record.
C25_SameRecordsTwice ==
    \A r1, r2 \in Runs :
        (sv_outcome[r1] # "none" /\ sv_written[r1] # {} /\
         sv_outcome[r2] # "none" /\ sv_written[r2] # {}) =>
            /\ {WithoutProcessedAt(x) : x \in sv_written[r1]} =
                   {WithoutProcessedAt(x) : x \in sv_written[r2]}
            /\ Cardinality(sv_written[r1]) = Cardinality(sv_written[r2])

\* C26: fully_diluted_valuation is current_price * total_supply when
\* max_supply is NULL and current_price * max_supply otherwise, and records
\* equal on these three fields have the same fully_diluted_valuation.
C26_Valuation ==
    /\ \A x \in cleaned.rows :
           x.fully_diluted_valuation =
               IF x.max_supply = NULL
               THEN x.current_price * x.total_supply
               ELSE x.current_price * x.max_supply
    /\ \A x, y \in cleaned.rows :
           (/\ x.current_price = y.current_price
            /\ x.total_supply = y.total_supply
            /\ x.max_supply = y.max_supply) =>
               x.fully_diluted_valuation = y.fully_diluted_valuation

\* the cleaned records hold one with a NULL max_supply, one with a
\* max_supply, and two of different coins and files with the same price
\* and supplies
C26_Witness ==
    /\ cleaned.exists
    /\ \E x \in cleaned.rows :
           x.max_supply = NULL /\ x.fully_diluted_valuation # NULL
    /\ \E x \in cleaned.rows :
           x.max_supply # NULL /\ x.total_supply # x.max_supply
    /\ \E x, y \in cleaned.rows :
           /\ x.coin_id # y.coin_id
           /\ x.ingested_at # y.ingested_at
           /\ x.current_price = y.current_price
           /\ x.max_supply = y.max_supply

\* C27: when no raw payload matches raw_prices_*.json the Normalizer fails
\* with a FileNotFoundError that reaches its caller, and writes no cleaned
\* output.
C27_MissingInputFails ==
    \A r \in Runs :
        (Normalized(r) /\ FilesPresent = {}) =>
            /\ sv_result[r] = "raise FileNotFoundError"
            /\ sv_written[r] = {}
            /\ cleaned = NoBlob

\* the canonical records of the raw records of file f, without the two
\* time stamps of the run
RecordsOf(f) ==
    {[coin_id |-> raw_files[f].records[i].id,
      current_price |-> raw_files[f].records[i].current_price,
      source_updated_at |-> raw_files[f].records[i].last_updated] :
          i \in DOMAIN raw_files[f].records}

\* C28: a malformed payload among several fails alone: the records of the
\* healthy payloads of the run are normalized and written.
C28_MalformedFailsAlone ==
    \A r \in Runs :
        Normalized(r) =>
            \A f \in FilesPresent :
                raw_files[f].state = "healthy" =>
                    \A q \in RecordsOf(f) :
                        \E x \in sv_written[r] :
                            /\ x.coin_id = q.coin_id
                            /\ x.current_price = q.current_price
                            /\ x.source_updated_at = q.source_updated_at

(***************************************************************************)
(* Properties of the alert at the end of a Gold cloud run.                 *)
(***************************************************************************)
\* the alert step of the run is over
AlertStepOver == al_pc \in {"alerted", "done", "failed"}

\* C22: send_discord_alert sends no request when no webhook URL is set, and
\* a failed delivery does not leave it as an exception: the run goes on to
\* the upload of the state and, when the upload ends, returns "Success"
\* with the computed state saved; only a failing upload makes the run raise.
C22_AlertNeverBlocks ==
    /\ webhook_url = "" => posts = <<>>
    /\ al_delivery = "failed" =>
           \/ al_pc = "alerted" /\ al_return = ""
           \/ /\ al_pc = "done"
              /\ al_return = "Success"
              /\ al_state = Blob(al_output)
           \/ /\ al_pc = "failed"
              /\ al_printed = "Critical Error in Gold Layer: upload"
              /\ al_state = NoBlob
    /\ (al_pc = "done" /\ webhook_url = "") =>
           al_return = "Success" /\ al_state = Blob(al_output)

\* a delivery failed and the run saved the state and returned "Success"
C22_Witness ==
    /\ al_delivery = "failed"
    /\ Len(posts) = 1
    /\ al_pc = "done"
    /\ al_return = "Success"
    /\ al_state = Blob(al_output)

\* C23: a run hands at most one (asset, price, rsi, signal) tuple to the
\* notifier, and only when a row with the greatest source_updated_at of the
\* new state has the signal BUY or SELL; the tuple is made of the symbol,
\* current_price, rsi_14d and signal of that row.  A latest row with the
\* signal WAIT gives no alert.
C23_OneAlertOnLatest ==
    /\ Len(alerts_handed) <= 1
    /\ Len(alerts_handed) = 1 =>
           /\ latest_row \in al_output
           /\ \A q \in al_output :
                  q.source_updated_at <= latest_row.source_updated_at
           /\ latest_row.signal \in {"BUY", "SELL"}
           /\ alerts_handed[1] =
                  <<latest_row.symbol, latest_row.current_price,
                    latest_row.rsi_14d, latest_row.signal>>
    /\ (AlertStepOver /\ latest_row.signal = "WAIT") => alerts_handed = <<>>
    /\ (AlertStepOver /\ latest_row.signal # "WAIT") =>
           Len(alerts_handed) = 1
    /\ \A k \in 1..Len(posts) : posts[k] = alerts_handed[k]

\* the run alerted on the latest row of one coin while an earlier row in
\* the new state, of either coin, had a BUY or SELL signal too
C23_Witness ==
    /\ Len(alerts_handed) = 1
    /\ latest_row.signal = "SELL"
    /\ \E q \in al_output :
           /\ q.source_updated_at < latest_row.source_updated_at
           /\ q.signal \in {"BUY", "SELL"}

(***************************************************************************)
(* Properties of process_recent and of the saving of state.                *)
(***************************************************************************)
\* C24: the saving of the state is an atomic overwrite: a reader at the
\* time of the save finds the complete old state or the complete new state
\* in the file, never anything between the two.
C24_AtomicOverwrite ==
    \A k \in DOMAIN seen :
        \/ seen[k] = master_before
        \/ bt_pc \in {"writing", "done", "failed"} /\ seen[k] = File(combined_df)

\* the daily files that could be read
ValidDaily == {k \in DOMAIN zip_files : zip_files[k].valid}

\* the times of the candles of the k-th daily file
DailyTimes(k) ==
    {CHOOSE t \in Times :
         \E unit \in {"ms", "us"} : RawTime(t, unit) = zip_files[k].open_time_ms[i] :
             i \in DOMAIN zip_files[k].open_time_ms}

TimesOf(rows) == {rows[i].source_updated_at : i \in DOMAIN rows}

\* C30: after process_recent has ended without error on a symbol that had
\* a master file, the master file holds one row for every source_updated_at
\* of the previous master file and of the daily files that could be read,
\* and no other row, in ascending order of source_updated_at; where the
\* time of a master row is also in a daily file the row of the daily file
\* is the one kept.  A symbol without a master file is left without one.
C30_GapFill ==
    /\ (bt_pc = "done" /\ master_before.state = "complete") =>
           LET m == master_file.rows
               old == master_before.rows IN
           /\ master_file.state = "complete"
           /\ \A i, j \in DOMAIN m :
                  i < j => m[i].source_updated_at < m[j].source_updated_at
           /\ TimesOf(m) =
                  TimesOf(old) \cup UNION {DailyTimes(k) : k \in ValidDaily}
           /\ \A i \in DOMAIN m :
                  IF \E k \in ValidDaily : m[i].source_updated_at \in DailyTimes(k)
                  THEN /\ m[i].close \in ValidDaily
                       /\ m[i].source_updated_at \in DailyTimes(m[i].close)
                  ELSE \E j \in DOMAIN old : m[i] = old[j]
    /\ master_before.state = "absent" => master_file = NoFile

\* a master file has been merged with two daily files, one in milliseconds
\* and one in microseconds, that both hold a time of the master file, and
\* with a time the master file did not have
C30_Witness ==
    /\ bt_pc = "done"
    /\ master_before.state = "complete"
    /\ bt_logged = "Merged & Updated"
    /\ Len(zip_files) = 2
    /\ ValidDaily = {1, 2}
    /\ IsMicroseconds(zip_files[1].open_time_ms[1])
    /\ ~IsMicroseconds(zip_files[2].open_time_ms[1])
    /\ \E t \in TimesOf(master_before.rows) : t \in DailyTimes(1) \cap DailyTimes(2)
    /\ \E t \in TimesOf(master_file.rows) : t \notin TimesOf(master_before.rows)
    /\ \E t \in TimesOf(master_before.rows) : t \notin DailyTimes(1) \cup DailyTimes(2)

====
